---- MODULE Spec2Model ----
(***************************************************************************)
(* A model of the No Man's Sky save-file codec of this repository: the     *)
(* LZ4 block container (recompressor.py, utils/save_extractor.py,          *)
(* extract_nms_to_save_mapped_json.py), the key mapper (key_mapper.py) and *)
(* the partial-JSON recovery (utils/save_metadata.py).                     *)
(*                                                                         *)
(* Bytes are integers 0..255 and a byte buffer is a sequence of them.      *)
(* Text is a sequence of one-character strings.                            *)
(***************************************************************************)
EXTENDS Integers, Sequences, FiniteSets, TLC

VARIABLES
    pc,            \* position of the scenario that is running
    json_bytes,    \* the payload handed to compress_json_bytes
    hg_data,       \* the container bytes (the content of the .hg file)
    block_count,   \* second component of compress_json_bytes' result
    tamper,        \* what happened to the container after it was written
    decoder,       \* which decompress_save_file ran: "utils" or "cli"
    decompressed,  \* result of decompress_save_file: [raised, data]
    tree,          \* the tree handed to map_keys / reverse_map_keys
    mapping_table, \* the mapping list: a sequence of [Key, Value]
    direction,     \* "map" or "reverse": which function produced mapped
    mapped,        \* its result
    second,        \* [op, value]: the function applied to mapped and its result
    partial,       \* the text handed to process_json_string_to_valid_json
    recovered,     \* its outcome: [raised, value]
    save,          \* the tree a save file is made from
    mapping_file,  \* the mapping list the mapping file holds
    save_file,     \* the bytes of the .hg file on disk
    loaded,        \* outcome of the first extract_save_file: [raised, error, value]
    reloaded,      \* outcome of extract_save_file after recompress_save
    file,          \* the bytes of a file handed to an extractor
    byte_budget,   \* the budget handed to decompress_first_block
    first_bytes,   \* the run of decompress_first_block and what it returned
    outcome,       \* outcome of extract_json_from_hg(file): [raised, error, value]
    metadata,      \* outcome of get_save_metadata(file): [raised, error, metadata]
    writer,        \* the function that is writing a file
    content,       \* the bytes it has to write
    previous,      \* what the destination held before the call
    destination,   \* the path it has to replace
    disk,          \* what each path holds on disk
    write_error,   \* the exception the writer raised, or "none"
    cache_file,    \* the cache file of the key mapping
    remote,        \* what a download of the mapping meets
    cache_writable,\* whether the cache file can be written
    request,       \* the call that asks for a mapping
    obtained,      \* what the call came to
    save_data,     \* the parsed save a manager or editor holds
    loaded_path,   \* what load / load_bases came to: the path to the bases
    bases_array,   \* what _get_bases_array came to
    manager,       \* the fields of a SaveFileManager
    folder,        \* what each path the manager may touch holds on disk
    call,          \* the last call of a method of the manager
    backed_up,     \* history: a backup was made since the last successful load
    base,          \* the base whose components are counted
    component_count,\* what get_numer_of_components_from_base returned
    directory,     \* the files of the save directory, in the order os.listdir gives
    save_files,    \* SaveEditor.save_files
    save_file_metadata,\* SaveEditor.save_file_metadata
    listed,        \* what load_save_files came to
    dropdown,      \* what _update_save_file_dropdown came to
    editor,        \* the fields of the SaveEditor the window shares with its workers
    window,        \* the buttons and lists of the Qt main window
    workers,       \* where each background worker stands
    hg_files,      \* the tree each save file of the directory decodes to
    trail,         \* history: where the tree came from, the base clicked, what was overwritten
    din            \* the BytesIO of decompress_save_file: data, cursor, output, status

codecVars == <<json_bytes, hg_data, block_count, tamper, decoder, decompressed>>

mapperVars == <<tree, mapping_table, direction, mapped, second>>

textVars == <<partial, recovered>>

saveVars == <<save, mapping_file, save_file, loaded, reloaded>>

fileVars == <<file, byte_budget, first_bytes, outcome, metadata>>

writeVars == <<writer, destination, content, previous, disk, write_error>>

providerVars == <<cache_file, remote, cache_writable, request, obtained>>

basesVars == <<save_data, loaded_path, bases_array>>

managerVars == <<manager, folder, call, backed_up>>

componentsVars == <<base, component_count>>

listingVars == <<directory, save_files, save_file_metadata, listed, dropdown>>

windowVars == <<editor, window, workers, hg_files, trail>>

scanVars == <<din>>

vars ==
    <<pc, codecVars, mapperVars, textVars, saveVars, fileVars, writeVars, providerVars,
      basesVars, managerVars, componentsVars, listingVars, windowVars, scanVars>>

\* The variables a scenario leaves alone.
outsideCodec ==
    <<mapperVars, textVars, saveVars, fileVars, writeVars, providerVars, basesVars,
      managerVars, componentsVars, listingVars, windowVars, scanVars>>

outsideMapper ==
    <<codecVars, textVars, saveVars, fileVars, writeVars, providerVars, basesVars,
      managerVars, componentsVars, listingVars, windowVars, scanVars>>

outsideText ==
    <<codecVars, mapperVars, saveVars, fileVars, writeVars, providerVars, basesVars,
      managerVars, componentsVars, listingVars, windowVars, scanVars>>

outsideSave ==
    <<codecVars, mapperVars, textVars, fileVars, writeVars, providerVars, basesVars,
      managerVars, componentsVars, listingVars, windowVars, scanVars>>

outsideWrite ==
    <<codecVars, mapperVars, textVars, saveVars, fileVars, providerVars, basesVars,
      managerVars, componentsVars, listingVars, windowVars, scanVars>>

outsideProvider ==
    <<codecVars, mapperVars, textVars, saveVars, fileVars, writeVars, basesVars,
      managerVars, componentsVars, listingVars, windowVars, scanVars>>

outsideBases ==
    <<codecVars, mapperVars, textVars, saveVars, fileVars, writeVars, providerVars,
      managerVars, componentsVars, listingVars, windowVars, scanVars>>

outsideManager ==
    <<codecVars, mapperVars, textVars, saveVars, fileVars, writeVars, providerVars,
      basesVars, componentsVars, listingVars, windowVars, scanVars>>

outsideComponents ==
    <<codecVars, mapperVars, textVars, saveVars, fileVars, writeVars, providerVars,
      basesVars, managerVars, listingVars, windowVars, scanVars>>

outsideListing ==
    <<codecVars, mapperVars, textVars, saveVars, fileVars, writeVars, providerVars,
      basesVars, managerVars, componentsVars, windowVars, scanVars>>

outsideWindow ==
    <<codecVars, mapperVars, textVars, saveVars, fileVars, writeVars, providerVars,
      basesVars, managerVars, componentsVars, listingVars, scanVars>>

outsideScan ==
    <<codecVars, mapperVars, textVars, saveVars, fileVars, writeVars, providerVars,
      basesVars, managerVars, componentsVars, listingVars, windowVars>>

outsideFile ==
    <<codecVars, mapperVars, textVars, saveVars, writeVars, providerVars, basesVars,
      managerVars, componentsVars, listingVars, windowVars, scanVars>>

----------------------------------------------------------------------------
(* Bounds of the model *)

\* Chunk size of the encoder. The program uses 0x80000 (recompressor.py:35);
\* the model scales it down so that buffers of one chunk, one chunk plus one
\* byte and several chunks are enumerable.
MAX_UNCOMPRESSED_BLOCK_SIZE == 2

\* Longest run of stray bytes inserted into a container.
MaxJunk == 4

\* Most entries of a mapping list.
MaxEntries == 2

\* Most elements of a list and most entries of a dict in a generated tree.
MaxWidth == 2

----------------------------------------------------------------------------
(* Generic helpers *)

Min(a, b) == IF a <= b THEN a ELSE b

Max(a, b) == IF a >= b THEN a ELSE b

\* All sequences over S of length lo..hi.
SeqsOf(S, lo, hi) == UNION {[1..n -> S] : n \in lo..hi}

\* Python slice s[a:b] on 0-based offsets, clipped like Python clips it.
Slice(s, a, b) ==
    LET lo == Min(Max(a, 0), Len(s))
        hi == Min(Max(b, 0), Len(s))
    IN  IF hi <= lo THEN <<>> ELSE SubSeq(s, lo + 1, hi)

\* bytes.find / str.find: the lowest 0-based offset at which pat occurs in s,
\* or -1.
Find(s, pat) ==
    LET hits == {i \in 0..(Len(s) - Len(pat)) : Slice(s, i, i + Len(pat)) = pat}
    IN  IF hits = {} THEN -1 ELSE CHOOSE i \in hits : \A j \in hits : i <= j

----------------------------------------------------------------------------
(* Block format *)

\* BLOCK_MAGIC 0xFEEDA1E5 as struct.pack('<I', ...) lays it out, which is the
\* pattern b'\xe5\xa1\xed\xfe' the decoder scans for.
BLOCK_MAGIC == <<229, 161, 237, 254>>

BLOCK_HEADER_SIZE == 16

\* struct.pack('<I', n): four little-endian bytes.
pack_u32(n) == <<n % 256, (n \div 256) % 256, (n \div 65536) % 256, (n \div 16777216) % 256>>

\* uint32(data): little-endian value of up to four bytes (a short read gives
\* the value of the bytes that were read, an empty read gives 0).  Values of
\* 2^30 and more are reported as 2^30-1: every use compares the value with
\* the length of a buffer, far below that.
uint32(b) ==
    IF Len(b) >= 4 /\ b[4] >= 64 THEN 1073741823
    ELSE (IF Len(b) >= 1 THEN b[1] ELSE 0)
       + (IF Len(b) >= 2 THEN b[2] * 256 ELSE 0)
       + (IF Len(b) >= 3 THEN b[3] * 65536 ELSE 0)
       + (IF Len(b) >= 4 THEN b[4] * 16777216 ELSE 0)

\* lz4.block.compress(chunk, store_size=False).  An input shorter than 13
\* bytes is below LZ4's minimum match length, so the block is one sequence of
\* literals: a token carrying the literal count in its high nibble, then the
\* literals.
lz4_compress(chunk) == <<16 * Len(chunk)>> \o chunk

\* lz4.block.decompress(src, uncompressed_size=cap) for blocks of at most 8
\* bytes: such a block can only be a final sequence of literals, which must
\* end exactly at the end of the input and fit the destination.
lz4_decompress(src, cap) ==
    IF Len(src) = 0 THEN [ok |-> FALSE, data |-> <<>>]
    ELSE LET litlen == src[1] \div 16
         IN  IF litlen < 15 /\ 1 + litlen = Len(src) /\ litlen <= cap
             THEN [ok |-> TRUE, data |-> Slice(src, 1, 1 + litlen)]
             ELSE [ok |-> FALSE, data |-> <<>>]

----------------------------------------------------------------------------
(* recompressor.py: the encoder *)

\* The 16-byte header struct.pack('<IIII', BLOCK_MAGIC, compressed_size,
\* chunk_size, 0).
pack_header_swapped(compressed_size, chunk_size) ==
    BLOCK_MAGIC \o pack_u32(chunk_size) \o pack_u32(compressed_size) \o pack_u32(0)

pack_header(compressed_size, chunk_size) ==
    BLOCK_MAGIC \o pack_u32(compressed_size) \o pack_u32(chunk_size) \o pack_u32(0)

\* One chunk's block: header, then the compressed chunk.
encode_block(uncompressed_chunk) ==
    LET compressed_chunk == lz4_compress(uncompressed_chunk)
    IN  pack_header(Len(compressed_chunk), Len(uncompressed_chunk)) \o compressed_chunk

\* The while loop of compress_json_bytes, from its state (offset, output,
\* block_count) to its return value.
RECURSIVE compress_loop(_, _, _, _)
compress_loop(bytes, offset, output, count) ==
    IF offset < Len(bytes)
    THEN LET chunk_size == Min(MAX_UNCOMPRESSED_BLOCK_SIZE, Len(bytes) - offset)
             uncompressed_chunk == Slice(bytes, offset, offset + chunk_size)
         IN  compress_loop(bytes, offset + chunk_size,
                           output \o encode_block(uncompressed_chunk), count + 1)
    ELSE [data |-> output, block_count |-> count]

compress_json_bytes(bytes) == compress_loop(bytes, 0, <<>>, 0)

----------------------------------------------------------------------------
(* utils/save_extractor.py and extract_nms_to_save_mapped_json.py: the decoder *)

\* io.BytesIO: the position after read(n) at position pos.
AfterRead(data, pos, n) == IF pos >= Len(data) THEN pos ELSE Min(pos + n, Len(data))

\* The while loop of decompress_save_file from the cursor pos with the output
\* out.  on_fail says what the except clause around lz4.block.decompress does:
\* "raise" (utils/save_extractor.py) or "break" (the command-line extractor).
\* pad is the width of the padding field the loop skips.
RECURSIVE decompress_loop(_, _, _, _, _)
decompress_loop(data, pos, out, on_fail, pad) ==
    LET size == Len(data)
        stop == [raised |-> FALSE, data |-> out]
    IN
    IF pos >= size THEN stop
    ELSE
    LET magic == Slice(data, pos, pos + 4)
        pos1  == AfterRead(data, pos, 4)
        remaining  == Slice(data, pos1, size)
        next_block == Find(remaining, BLOCK_MAGIC)
        \* cursor after the magic has been accepted, or -1 when the loop breaks
        pos3 == IF magic = BLOCK_MAGIC THEN pos1
                ELSE IF pos1 >= size THEN -1
                ELSE IF next_block = -1 THEN -1
                ELSE AfterRead(data, size - Len(remaining) + next_block, 4)
    IN
    IF pos3 = -1 THEN stop
    ELSE
    LET compressedSize   == uint32(Slice(data, pos3, pos3 + 4))
        pos4 == AfterRead(data, pos3, 4)
        uncompressedSize == uint32(Slice(data, pos4, pos4 + 4))
        pos5 == AfterRead(data, pos4, 4)
        pos6 == pos5 + pad
        compressed_data == Slice(data, pos6, pos6 + compressedSize)
        pos7 == AfterRead(data, pos6, compressedSize)
        block == lz4_decompress(compressed_data, uncompressedSize)
    IN
    IF Len(compressed_data) < compressedSize THEN stop
    ELSE IF block.ok THEN decompress_loop(data, pos7, out \o block.data, on_fail, pad)
    ELSE IF on_fail = "raise" THEN [raised |-> TRUE, data |-> <<>>]
    ELSE stop

decompress_save_file_no_padding(data) == decompress_loop(data, 0, <<>>, "raise", 0)

\* utils/save_extractor.py
decompress_save_file(data) == decompress_loop(data, 0, <<>>, "raise", 4)

\* extract_nms_to_save_mapped_json.py
decompress_save_file_cli(data) == decompress_loop(data, 0, <<>>, "break", 4)

----------------------------------------------------------------------------
(* Tree values (parsed JSON) and Python dictionaries *)

\* A tree value is [t, v]: t names the kind, v is the digits of a number, the
\* characters of a string, the elements of a list, or the entries of a dict.
\* A dict is a sequence of <<key, value>> pairs with pairwise different keys,
\* in insertion order; a key is a sequence of characters.
Num(digits) == [t |-> "num", v |-> digits]

Str(chars) == [t |-> "str", v |-> chars]

Arr(items) == [t |-> "arr", v |-> items]

Obj(entries) == [t |-> "obj", v |-> entries]

\* The keys of a dict.
DictKeys(d) == {d[i][1] : i \in 1..Len(d)}

\* d[key] for a key of d.
DictAt(d, key) == d[CHOOSE i \in 1..Len(d) : d[i][1] = key][2]

\* d[key] = value: an existing key keeps its place and gets the new value, a
\* new key is appended.
DictSet(d, key, value) ==
    IF key \in DictKeys(d)
    THEN [i \in 1..Len(d) |-> IF d[i][1] = key THEN <<key, value>> ELSE d[i]]
    ELSE Append(d, <<key, value>>)

\* Python's ==: dicts compare without regard to order.
RECURSIVE DeepEq(_, _)
DeepEq(a, b) ==
    IF a.t # b.t THEN FALSE
    ELSE IF a.t = "arr"
    THEN Len(a.v) = Len(b.v) /\ \A i \in 1..Len(a.v) : DeepEq(a.v[i], b.v[i])
    ELSE IF a.t = "obj"
    THEN /\ DictKeys(a.v) = DictKeys(b.v)
         /\ \A k \in DictKeys(a.v) : DeepEq(DictAt(a.v, k), DictAt(b.v, k))
    ELSE a.v = b.v

----------------------------------------------------------------------------
(* key_mapper.py: map_keys and reverse_map_keys *)

\* A mapping is a sequence of entries [Key, Value].

\* {m["Key"]: m["Value"] for m in mapping}: a later entry with the same Key
\* overwrites the value of an earlier one.
RECURSIVE key_map_of(_)
key_map_of(mapping) ==
    IF mapping = <<>> THEN <<>>
    ELSE LET m == mapping[Len(mapping)]
         IN  DictSet(key_map_of(SubSeq(mapping, 1, Len(mapping) - 1)), m.Key, m.Value)

\* {m["Value"]: m["Key"] for m in mapping}
RECURSIVE value_map_of(_)
value_map_of(mapping) ==
    IF mapping = <<>> THEN <<>>
    ELSE LET m == mapping[Len(mapping)]
         IN  DictSet(value_map_of(SubSeq(mapping, 1, Len(mapping) - 1)), m.Value, m.Key)

\* The key an entry is stored under: lookup.get(key) when that is truthy
\* (found and not the empty string), else the key itself.
target_key(lookup, key) ==
    IF key \in DictKeys(lookup) /\ DictAt(lookup, key) # <<>>
    THEN DictAt(lookup, key)
    ELSE key

\* The recursion shared by map_keys and reverse_map_keys over a tree, with the
\* lookup dictionary of the direction.  keep_unmapped is TRUE in the program:
\* the else branch stores an entry without a lookup hit under its own key.
RECURSIVE rename_keys(_, _, _)
RECURSIVE rename_entries(_, _, _, _)
rename_entries(entries, lookup, keep_unmapped, new_json) ==
    IF entries = <<>> THEN new_json
    ELSE LET key   == Head(entries)[1]
             value == Head(entries)[2]
             hit   == key \in DictKeys(lookup) /\ DictAt(lookup, key) # <<>>
         IN  rename_entries(Tail(entries), lookup, keep_unmapped,
                 IF hit \/ keep_unmapped
                 THEN DictSet(new_json, target_key(lookup, key),
                              rename_keys(value, lookup, keep_unmapped))
                 ELSE new_json)

rename_keys(json_obj, lookup, keep_unmapped) ==
    IF json_obj.t = "arr"
    THEN Arr([i \in 1..Len(json_obj.v) |-> rename_keys(json_obj.v[i], lookup, keep_unmapped)])
    ELSE IF json_obj.t = "obj"
    THEN Obj(rename_entries(json_obj.v, lookup, keep_unmapped, <<>>))
    ELSE json_obj

map_keys_dropping(json_obj, mapping) == rename_keys(json_obj, key_map_of(mapping), FALSE)

map_keys(json_obj, mapping) == rename_keys(json_obj, key_map_of(mapping), TRUE)

reverse_map_keys_forward(json_obj, mapping) == rename_keys(json_obj, key_map_of(mapping), TRUE)

reverse_map_keys(json_obj, mapping) == rename_keys(json_obj, value_map_of(mapping), TRUE)

----------------------------------------------------------------------------
(* utils/save_metadata.py: decompress_first_block *)

\* max_bytes=None
NoBudget == -1

\* The block whose header fields start at the cursor pos, just after its
\* magic: short when the payload is cut off, block the outcome of
\* lz4.block.decompress, pos the cursor after the payload.
block_at(data, pos) ==
    LET compressedSize   == uint32(Slice(data, pos, pos + 4))
        pos1 == AfterRead(data, pos, 4)
        uncompressedSize == uint32(Slice(data, pos1, pos1 + 4))
        pos2 == AfterRead(data, pos1, 4) + 4
        compressed_data  == Slice(data, pos2, pos2 + compressedSize)
    IN  [short |-> Len(compressed_data) < compressedSize,
         block |-> lz4_decompress(compressed_data, uncompressedSize),
         pos   |-> AfterRead(data, pos2, compressedSize)]

\* The cursor after the magic of the first block, or -1 when the function
\* returns without one.  When the file does not start with the magic, the
\* offset found in the remainder is handed to din.seek as it is.
first_block_start(data) ==
    LET remaining  == Slice(data, 4, Len(data))
        next_block == Find(remaining, BLOCK_MAGIC)
    IN  IF Slice(data, 0, 4) = BLOCK_MAGIC THEN 4
        ELSE IF next_block = -1 THEN -1
        ELSE IF Slice(data, next_block, next_block + 4) = BLOCK_MAGIC
        THEN AfterRead(data, next_block, 4)
        ELSE -1

\* A run of the function: the output buffer, the number of calls of
\* lz4.block.decompress, and the length the output had at the last call.
Run(out, blocks, before) == [out |-> out, blocks |-> blocks, before |-> before]

\* The while loop over the blocks after the first, from the cursor pos with
\* the run so far.
RECURSIVE more_blocks(_, _, _, _)
RECURSIVE next_or_stop(_, _, _, _)
more_blocks(data, pos, run, max_bytes) ==
    IF ~(Len(run.out) < max_bytes /\ pos < Len(data)) THEN run
    ELSE IF Slice(data, pos, pos + 4) # BLOCK_MAGIC THEN run
    ELSE next_or_stop(data, block_at(data, AfterRead(data, pos, 4)), run, max_bytes)

\* The body of the loop once the block b has been read.
next_or_stop(data, b, run, max_bytes) ==
    IF b.short THEN run
    ELSE IF ~b.block.ok THEN Run(run.out, run.blocks + 1, Len(run.out))
    ELSE more_blocks(data, b.pos,
                     Run(run.out \o b.block.data, run.blocks + 1, Len(run.out)), max_bytes)

\* The function once the first block b has been read.
first_decoded(data, b, max_bytes) ==
    IF b.short THEN Run(<<>>, 0, 0)
    ELSE IF ~b.block.ok THEN Run(<<>>, 1, 0)
    ELSE IF max_bytes = NoBudget THEN Run(b.block.data, 1, 0)
    ELSE more_blocks(data, b.pos, Run(b.block.data, 1, 0), max_bytes)

\* The function from the cursor after the first magic.
first_block(data, start, max_bytes) ==
    IF start = -1 THEN Run(<<>>, 0, 0)
    ELSE first_decoded(data, block_at(data, start), max_bytes)

\* The run of decompress_first_block(data, max_bytes).
first_blocks(data, max_bytes) ==
    IF Len(data) = 0 THEN Run(<<>>, 0, 0)
    ELSE first_block(data, first_block_start(data), max_bytes)

\* The whole output buffer.
cut_nothing(out, max_bytes) == out

\* bytes(out[:max_bytes]), or the whole first block without a budget.
cut_to_budget(out, max_bytes) ==
    IF max_bytes = NoBudget THEN out ELSE Slice(out, 0, max_bytes)

\* decompress_first_block(data, max_bytes)
decompress_first_block(data, max_bytes) ==
    cut_to_budget(first_blocks(data, max_bytes).out, max_bytes)

----------------------------------------------------------------------------
(* utils/save_extractor.py and extract_nms_to_save_mapped_json.py: one     *)
(* iteration of the scan loop of decompress_save_file                      *)

\* The state of the function: the cursor of din, the output, whether the
\* loop goes on, has ended or has raised, and whether the last iteration
\* took the re-sync branch.
Scanning(pos, out, resynced) ==
    [status |-> "scanning", pos |-> pos, out |-> out, resynced |-> resynced]

Stopped(pos, out, resynced) ==
    [status |-> "returned", pos |-> pos, out |-> out, resynced |-> resynced]

Failing(pos, out, resynced) ==
    [status |-> "raised", pos |-> pos, out |-> out, resynced |-> resynced]

\* din.seek(next_block): the offset in the remainder taken for an offset in
\* the file.
seek_from_start(tell, remaining_len, next_block) == next_block

\* din.seek(din.tell() - len(remaining) + next_block)
seek_target(tell, remaining_len, next_block) == tell - remaining_len + next_block

\* The rest of the iteration once the block b has been read.
block_read(b, out, on_fail, resynced) ==
    IF b.short THEN Stopped(b.pos, out, resynced)
    ELSE IF b.block.ok THEN Scanning(b.pos, out \o b.block.data, resynced)
    ELSE IF on_fail = "raise" THEN Failing(b.pos, out, resynced)
    ELSE Stopped(b.pos, out, resynced)

\* The re-sync branch after the seek to target.
resync_at(data, target, out, on_fail) ==
    IF Slice(data, target, target + 4) # BLOCK_MAGIC
    THEN Stopped(AfterRead(data, target, 4), out, TRUE)
    ELSE block_read(block_at(data, AfterRead(data, target, 4)), out, on_fail, TRUE)

\* The re-sync branch: the magic is looked for in the bytes that remain
\* after the cursor pos1.
resync(data, pos1, out, on_fail) ==
    IF pos1 >= Len(data) THEN Stopped(pos1, out, FALSE)
    ELSE IF Find(Slice(data, pos1, Len(data)), BLOCK_MAGIC) = -1
    THEN Stopped(Len(data), out, FALSE)
    ELSE resync_at(data,
                   seek_target(Len(data), Len(data) - pos1,
                               Find(Slice(data, pos1, Len(data)), BLOCK_MAGIC)),
                   out, on_fail)

\* One iteration of the while loop from the cursor pos.
loop_body(data, pos, out, on_fail) ==
    IF Slice(data, pos, pos + 4) = BLOCK_MAGIC
    THEN block_read(block_at(data, AfterRead(data, pos, 4)), out, on_fail, FALSE)
    ELSE resync(data, AfterRead(data, pos, 4), out, on_fail)

----------------------------------------------------------------------------
(* Text and the json module *)

\* The characters of the model's texts.  Other characters do not occur in any
\* text the model builds.
QUOTE == "\""

BACKSLASH == "\\"

NEWLINE == "\n"

Whitespace == {" ", NEWLINE}

Digits == {"0", "1", "2", "3", "4", "5", "6", "7", "8", "9"}

\* s[i:i+1] on a 0-based offset; "" past the end, as in Python.
CharAt(s, i) == IF i >= 0 /\ i < Len(s) THEN s[i + 1] ELSE ""

\* The least element of a non-empty set of integers.
Least(S) == CHOOSE x \in S : \A y \in S : x <= y

\* The greatest element of a non-empty set of integers.
Greatest(S) == CHOOSE x \in S : \A y \in S : x >= y

\* WHITESPACE.match(s, i).end(): the first offset from i on that holds no
\* whitespace.
SkipWs(s, i) == Least({j \in i..Len(s) : CharAt(s, j) \notin Whitespace})

\* str.rstrip() and str.rstrip(chars): the text without its trailing run of
\* characters of the set.
RStrip(s, chars) ==
    Slice(s, 0, Greatest({0} \cup {j \in 1..Len(s) : s[j] \notin chars}))

\* str.count(c)
Count(s, c) == Cardinality({j \in 1..Len(s) : s[j] = c})

\* c repeated n times (c * n; empty for n <= 0).
Repeat(c, n) == [j \in 1..n |-> c]

\* sys.int_info.default_max_str_digits: int(numstr) raises ValueError, which
\* is not a JSONDecodeError, for a literal of more digits.
default_max_str_digits == 4300

\* A successful scan: the value and the offset after it.
Scanned(value, end) == [ok |-> TRUE, val |-> value, end |-> end, err |-> "none"]

\* A JSONDecodeError whose message is not "Extra data".
SyntaxError == [ok |-> FALSE, val |-> Str(<<>>), end |-> 0, err |-> "syntax"]

\* The ValueError of int() for a literal that is too long.
DigitsError == [ok |-> FALSE, val |-> Str(<<>>), end |-> 0, err |-> "digits"]

\* json.decoder.scanstring(s, end): the string whose opening quote is just
\* before offset i, with acc the characters decoded so far.  Of the escapes,
\* \" \\ and \/ are decoded; the others need letters (b f n r t u) that the
\* model's texts never put after a backslash.
RECURSIVE scanstring(_, _, _)
scanstring(s, i, acc) ==
    LET c == CharAt(s, i)
        esc == CharAt(s, i + 1)
    IN  IF c = "" THEN SyntaxError
        ELSE IF c = QUOTE THEN Scanned(Str(acc), i + 1)
        ELSE IF c = BACKSLASH
        THEN IF esc \in {QUOTE, BACKSLASH, "/"}
             THEN scanstring(s, i + 2, Append(acc, esc))
             ELSE SyntaxError
        ELSE scanstring(s, i + 1, Append(acc, c))

\* The end of the integer literal that NUMBER_RE matches at offset i: a single
\* 0, or a run of digits.
NumberEnd(s, i) ==
    IF CharAt(s, i) = "0" THEN i + 1
    ELSE Least({j \in i..Len(s) : CharAt(s, j) \notin Digits})

\* dict(pairs): a later pair with the same key replaces the value of the
\* earlier one.
RECURSIVE DictOf(_)
DictOf(pairs) ==
    IF pairs = <<>> THEN <<>>
    ELSE LET last == pairs[Len(pairs)]
         IN  DictSet(DictOf(SubSeq(pairs, 1, Len(pairs) - 1)), last[1], last[2])

\* json.scanner: scan_once(s, i), with JSONObject and JSONArray.
RECURSIVE scan_once(_, _)
RECURSIVE JSONObject(_, _, _)
RECURSIVE JSONArray(_, _, _)

\* The loop of JSONObject from the offset after the opening quote of a key,
\* with the pairs read so far.
JSONObject(s, end, pairs) ==
    LET key == scanstring(s, end, <<>>)
    IN  IF ~key.ok THEN key
        ELSE
        LET colon == SkipWs(s, key.end)
        IN  IF CharAt(s, colon) # ":" THEN SyntaxError
            ELSE
            LET value == scan_once(s, SkipWs(s, colon + 1))
            IN  IF ~value.ok THEN value
                ELSE
                LET after == SkipWs(s, value.end)
                    more  == Append(pairs, <<key.val.v, value.val>>)
                    next  == SkipWs(s, after + 1)
                IN  IF CharAt(s, after) = "}" THEN Scanned(Obj(DictOf(more)), after + 1)
                    ELSE IF CharAt(s, after) # "," THEN SyntaxError
                    ELSE IF CharAt(s, next) # QUOTE THEN SyntaxError
                    ELSE JSONObject(s, next + 1, more)

\* The loop of JSONArray from the offset of an element, with the values read
\* so far.
JSONArray(s, end, values) ==
    LET value == scan_once(s, end)
    IN  IF ~value.ok THEN value
        ELSE
        LET after == SkipWs(s, value.end)
            more  == Append(values, value.val)
        IN  IF CharAt(s, after) = "]" THEN Scanned(Arr(more), after + 1)
            ELSE IF CharAt(s, after) # "," THEN SyntaxError
            ELSE JSONArray(s, SkipWs(s, after + 1), more)

scan_once(s, i) ==
    LET c == CharAt(s, i)
        first == SkipWs(s, i + 1)
    IN  IF c = QUOTE THEN scanstring(s, i + 1, <<>>)
        ELSE IF c = "{"
        THEN IF CharAt(s, first) = "}" THEN Scanned(Obj(<<>>), first + 1)
             ELSE IF CharAt(s, first) # QUOTE THEN SyntaxError
             ELSE JSONObject(s, first + 1, <<>>)
        ELSE IF c = "["
        THEN IF CharAt(s, first) = "]" THEN Scanned(Arr(<<>>), first + 1)
             ELSE JSONArray(s, first, <<>>)
        ELSE IF c \in Digits
        THEN IF NumberEnd(s, i) - i > default_max_str_digits THEN DigitsError
             ELSE Scanned(Num(Slice(s, i, NumberEnd(s, i))), NumberEnd(s, i))
        ELSE SyntaxError

\* JSONDecoder().raw_decode(s): the first value of s, from offset 0.
raw_decode(s) == scan_once(s, 0)

\* json.loads(s): the value of s; err is "extra" for the JSONDecodeError
\* "Extra data", "syntax" for any other JSONDecodeError and "digits" for the
\* ValueError of an integer literal that is too long.
json_loads(s) ==
    LET r == scan_once(s, SkipWs(s, 0))
    IN  IF ~r.ok THEN r
        ELSE IF SkipWs(s, r.end) # Len(s) THEN [SyntaxError EXCEPT !.err = "extra"]
        ELSE r

\* A string encoder that escapes nothing.
escape_nothing(chars) == chars

\* The escaped form of the characters of a string.
RECURSIVE escape(_)
escape(chars) ==
    IF chars = <<>> THEN <<>>
    ELSE (IF Head(chars) \in {QUOTE, BACKSLASH} THEN <<BACKSLASH, Head(chars)>>
          ELSE <<Head(chars)>>) \o escape(Tail(chars))

\* json.dumps(obj, separators=(item_sep, key_sep), ensure_ascii=False)
RECURSIVE json_dumps(_, _, _)
RECURSIVE dumps_items(_, _, _)
RECURSIVE dumps_entries(_, _, _)
dumps_items(items, item_sep, key_sep) ==
    IF items = <<>> THEN <<>>
    ELSE json_dumps(Head(items), item_sep, key_sep)
         \o (IF Len(items) > 1 THEN item_sep ELSE <<>>)
         \o dumps_items(Tail(items), item_sep, key_sep)

dumps_entries(entries, item_sep, key_sep) ==
    IF entries = <<>> THEN <<>>
    ELSE <<QUOTE>> \o escape(Head(entries)[1]) \o <<QUOTE>> \o key_sep
         \o json_dumps(Head(entries)[2], item_sep, key_sep)
         \o (IF Len(entries) > 1 THEN item_sep ELSE <<>>)
         \o dumps_entries(Tail(entries), item_sep, key_sep)

json_dumps(obj, item_sep, key_sep) ==
    IF obj.t = "num" THEN obj.v
    ELSE IF obj.t = "str" THEN <<QUOTE>> \o escape(obj.v) \o <<QUOTE>>
    ELSE IF obj.t = "arr" THEN <<"[">> \o dumps_items(obj.v, item_sep, key_sep) \o <<"]">>
    ELSE <<"{">> \o dumps_entries(obj.v, item_sep, key_sep) \o <<"}">>

\* json.dumps(obj, separators=(",", ":"), ensure_ascii=False)
dumps_compact(obj) == json_dumps(obj, <<",">>, <<":">>)

\* json.dumps(obj, ensure_ascii=False)
dumps_default(obj) == json_dumps(obj, <<",", " ">>, <<":", " ">>)


\* The line break json.dump(obj, f, indent=indent) puts before an item at a
\* nesting level.
newline_indent(indent, level) == <<NEWLINE>> \o Repeat(" ", indent * level)

\* json.dump(obj, f, indent=indent), for data of ASCII characters, for
\* which ensure_ascii makes no difference.
RECURSIVE dumps_indent(_, _, _)
RECURSIVE indent_items(_, _, _)
RECURSIVE indent_entries(_, _, _)
indent_items(items, indent, level) ==
    IF items = <<>> THEN <<>>
    ELSE dumps_indent(Head(items), indent, level)
         \o (IF Len(items) > 1 THEN <<",">> \o newline_indent(indent, level) ELSE <<>>)
         \o indent_items(Tail(items), indent, level)

indent_entries(entries, indent, level) ==
    IF entries = <<>> THEN <<>>
    ELSE <<QUOTE>> \o escape(Head(entries)[1]) \o <<QUOTE, ":", " ">>
         \o dumps_indent(Head(entries)[2], indent, level)
         \o (IF Len(entries) > 1 THEN <<",">> \o newline_indent(indent, level) ELSE <<>>)
         \o indent_entries(Tail(entries), indent, level)

dumps_indent(obj, indent, level) ==
    IF obj.t = "num" THEN obj.v
    ELSE IF obj.t = "str" THEN <<QUOTE>> \o escape(obj.v) \o <<QUOTE>>
    ELSE IF obj.v = <<>> THEN (IF obj.t = "arr" THEN <<"[", "]">> ELSE <<"{", "}">>)
    ELSE IF obj.t = "arr"
    THEN <<"[">> \o newline_indent(indent, level + 1)
         \o indent_items(obj.v, indent, level + 1)
         \o newline_indent(indent, level) \o <<"]">>
    ELSE <<"{">> \o newline_indent(indent, level + 1)
         \o indent_entries(obj.v, indent, level + 1)
         \o newline_indent(indent, level) \o <<"}">>

----------------------------------------------------------------------------
(* utils/save_metadata.py: process_json_string_to_valid_json *)

\* The characters of the class [,:\s].
Separators == {",", ":"} \cup Whitespace

\* Offsets of the double quotes of s, 0-based.
QuoteOffsets(s) == {j \in 0..(Len(s) - 1) : CharAt(s, j) = QUOTE}

\* Where a match of [,:\s]*" that ends with the quote at offset q starts: the
\* leftmost offset from which only separators precede the quote.
SepRunStart(s, q) ==
    Least({i \in 0..q : \A j \in i..(q - 1) : CharAt(s, j) \in Separators})

\* s[q+1:] consists of whitespace, with exactly one colon in it if colon.
TailMatches(s, q, colon) ==
    LET tail == Slice(s, q + 1, Len(s))
    IN  /\ \A j \in 1..Len(tail) : tail[j] \in Whitespace \cup (IF colon THEN {":"} ELSE {})
        /\ colon => Count(tail, ":") = 1

\* re.sub(r'[,:\s]*"[^"]*"\s*:\s*$', '', s).  A match runs to the end of s, so
\* there is at most one; it holds the last two quotes of s, and re takes the
\* leftmost start.
sub_key_colon(s) ==
    LET qs == QuoteOffsets(s)
        q2 == Greatest(qs)
        q1 == Greatest(qs \ {q2})
    IN  IF Cardinality(qs) >= 2 /\ TailMatches(s, q2, TRUE)
        THEN Slice(s, 0, SepRunStart(s, q1))
        ELSE s

\* re.sub(r'[,:\s]*"[^"]*"\s*$', '', s)
sub_key(s) ==
    LET qs == QuoteOffsets(s)
        q2 == Greatest(qs)
        q1 == Greatest(qs \ {q2})
    IN  IF Cardinality(qs) >= 2 /\ TailMatches(s, q2, FALSE)
        THEN Slice(s, 0, SepRunStart(s, q1))
        ELSE s

\* re.sub(r'[,:\s]*"[^"]*$', '', s): matches whenever s holds a quote.
sub_open_quote(s) ==
    LET qs == QuoteOffsets(s)
    IN  IF qs # {} THEN Slice(s, 0, SepRunStart(s, Greatest(qs))) ELSE s

\* The backward search for the opening quote of a string that ends at the end
\* of the text: the for loop over i from quote_pos - 1 down to 0.
RECURSIVE found_match(_, _, _)
found_match(s, i, escaped) ==
    IF i < 0 THEN FALSE
    ELSE IF CharAt(s, i) = BACKSLASH THEN found_match(s, i - 1, ~escaped)
    ELSE IF CharAt(s, i) = QUOTE /\ ~escaped THEN TRUE
    ELSE found_match(s, i - 1, FALSE)

\* The while loop that strips trailing commas, colons and unmatched quotes.
RECURSIVE strip_tail(_)
strip_tail(truncated) ==
    LET last_char == CharAt(truncated, Len(truncated) - 1)
        quote_pos == Len(truncated) - 1
    IN  IF truncated = <<>> THEN truncated
        ELSE IF last_char \in {",", ":"}
        THEN strip_tail(RStrip(Slice(truncated, 0, Len(truncated) - 1), Whitespace))
        ELSE IF last_char = QUOTE /\ ~found_match(truncated, quote_pos - 1, FALSE)
        THEN strip_tail(RStrip(RStrip(RStrip(RStrip(Slice(truncated, 0, quote_pos),
                            Whitespace), {":"}), {","}), Whitespace))
        ELSE truncated

\* truncated + ']' * max(0, open_brackets) + '}' * max(0, open_braces), with
\* the counts taken from counted.
close_open(truncated, counted) ==
    truncated
        \o Repeat("]", Max(0, Count(counted, "[") - Count(counted, "]")))
        \o Repeat("}", Max(0, Count(counted, "{") - Count(counted, "}")))

\* The result of a call: the returned text, or raised.
Returned(text) == [raised |-> FALSE, value |-> text]

Raised == [raised |-> TRUE, value |-> <<>>]

\* The manual repair: everything after raw_decode has failed.
repair(json_str) ==
    LET stripped  == sub_open_quote(sub_key(sub_key_colon(RStrip(json_str, Whitespace))))
        tidy      == RStrip(RStrip(RStrip(RStrip(stripped, Whitespace), {","}), {":"}), Whitespace)
        truncated == strip_tail(tidy)
        trimmed   == RStrip(RStrip(truncated, Whitespace), {","})
        fixed     == close_open(trimmed, truncated)
        first     == json_loads(fixed)
        last_valid_pos ==
            Greatest({-1} \cup {j \in 0..(Len(trimmed) - 1) : CharAt(trimmed, j) \in {"}", "]"}})
        shorter   == Slice(trimmed, 0, last_valid_pos + 1)
        fixed2    == IF last_valid_pos >= 0 THEN close_open(shorter, shorter)
                     ELSE close_open(trimmed, truncated)
        second_try == json_loads(fixed2)
    IN  IF first.ok THEN Returned(fixed)
        ELSE IF first.err = "digits" THEN Raised
        ELSE IF second_try.ok THEN Returned(fixed2)
        ELSE IF second_try.err = "digits" THEN Raised
        ELSE Returned(<<"{", "}">>)

process_json_string_to_valid_json(json_str) ==
    LET whole  == json_loads(json_str)
        prefix == raw_decode(json_str)
        result == dumps_default(prefix.val)
    IN  IF whole.ok THEN Returned(json_str)
        ELSE IF whole.err = "digits" THEN Raised
        ELSE IF prefix.ok /\ json_loads(result).ok THEN Returned(result)
        ELSE repair(json_str)

----------------------------------------------------------------------------
(* str.encode('utf-8') and bytes.decode('utf-8') *)

\* ord(c) of the characters of the model's texts.
CodePoint ==
    ("{" :> 123 @@ "}" :> 125 @@ "[" :> 91 @@ "]" :> 93 @@ QUOTE :> 34
        @@ ":" :> 58 @@ "," :> 44 @@ BACKSLASH :> 92 @@ " " :> 32
        @@ "a" :> 97 @@ "b" :> 98 @@ "1" :> 49 @@ "2" :> 50 @@ "é" :> 233)

\* chr(cp); a code point that no character of the model has is shown as "?".
CharOf(cp) ==
    IF \E c \in DOMAIN CodePoint : CodePoint[c] = cp
    THEN CHOOSE c \in DOMAIN CodePoint : CodePoint[c] = cp
    ELSE "?"

\* The UTF-8 form of one character: one byte below U+0080, two below U+0800.
encode_char(c) ==
    LET cp == CodePoint[c]
    IN  IF cp < 128 THEN <<cp>> ELSE <<192 + (cp \div 64), 128 + (cp % 64)>>

\* json_str.encode('utf-8')
RECURSIVE utf8_encode(_)
utf8_encode(chars) ==
    IF chars = <<>> THEN <<>> ELSE encode_char(Head(chars)) \o utf8_encode(Tail(chars))

\* decompressed_data.decode('utf-8') from the bytes that are left, with the
\* characters decoded so far; ok is FALSE for UnicodeDecodeError.  Sequences
\* of three and four bytes decode to a character the model does not have.
\* ranged is the check of the second byte that rules out overlong forms,
\* surrogates and code points above U+10FFFF.
RECURSIVE utf8_decode(_, _)
utf8_decode(bytes, acc) ==
    LET b1 == Head(bytes)
        width == IF b1 < 128 THEN 1
                 ELSE IF b1 >= 194 /\ b1 <= 223 THEN 2
                 ELSE IF b1 >= 224 /\ b1 <= 239 THEN 3
                 ELSE IF b1 >= 240 /\ b1 <= 244 THEN 4
                 ELSE 0
        continued == \A j \in 2..width : bytes[j] >= 128 /\ bytes[j] <= 191
        ranged == /\ b1 = 224 => bytes[2] >= 160
                  /\ b1 = 237 => bytes[2] <= 159
                  /\ b1 = 240 => bytes[2] >= 144
                  /\ b1 = 244 => bytes[2] <= 143
        cp == IF width = 1 THEN b1
              ELSE IF width = 2 THEN (b1 - 192) * 64 + (bytes[2] - 128)
              ELSE -1
    IN  IF bytes = <<>> THEN [ok |-> TRUE, text |-> acc]
        ELSE IF width = 0 \/ Len(bytes) < width THEN [ok |-> FALSE, text |-> <<>>]
        ELSE IF ~(continued /\ ranged) THEN [ok |-> FALSE, text |-> <<>>]
        ELSE utf8_decode(Slice(bytes, width, Len(bytes)), Append(acc, CharOf(cp)))

----------------------------------------------------------------------------
(* utils/save_extractor.py: extract_json_from_hg and extract_save_file *)

\* A call that returned a tree.
Loaded(value) == [raised |-> FALSE, error |-> "none", value |-> value]

\* A call that raised the exception named by error.
Failed(error) == [raised |-> TRUE, error |-> error, value |-> Str(<<>>)]

\* The for loop that looks for the brace closing the one at json_start: the
\* offset after it (end_pos), or -1.
RECURSIVE match_brace(_, _, _)
match_brace(json_str, i, brace_count) ==
    IF i >= Len(json_str) THEN -1
    ELSE IF CharAt(json_str, i) = "{" THEN match_brace(json_str, i + 1, brace_count + 1)
    ELSE IF CharAt(json_str, i) = "}"
    THEN IF brace_count - 1 = 0 THEN i + 1
         ELSE match_brace(json_str, i + 1, brace_count - 1)
    ELSE match_brace(json_str, i + 1, brace_count)

\* What a parse that is not guarded by a handler yields: the value, or the
\* exception of the parser.
parsed_or_raised(r) ==
    IF r.ok THEN Loaded(r.val)
    ELSE IF r.err = "digits" THEN Failed("ValueError")
    ELSE Failed("JSONDecodeError")

\* The try block around json.loads(json_str), with whole the outcome of
\* json.loads(json_str): the "Extra data" branch takes the first value with
\* raw_decode, the other branch cuts the text from the first brace to the
\* brace that closes it.
parse_json(json_str, whole) ==
    LET json_start == Find(json_str, <<"{">>)
        end_pos    == match_brace(json_str, json_start, 0)
    IN  IF whole.ok THEN Loaded(whole.val)
        ELSE IF whole.err = "digits" THEN Failed("ValueError")
        ELSE IF whole.err = "extra" THEN parsed_or_raised(raw_decode(json_str))
        ELSE IF json_start = -1 THEN Failed("ValueError")
        ELSE IF end_pos <= 0 THEN Failed("ValueError")
        ELSE parsed_or_raised(json_loads(Slice(json_str, json_start, end_pos)))

\* The outer try block, with decoded the outcome of
\* decompressed_data.decode('utf-8').
parse_decoded(decoded) ==
    IF ~decoded.ok THEN Failed("ValueError")
    ELSE parse_json(decoded.text, json_loads(decoded.text))

\* extract_json_from_hg after the call of decompress_save_file, with its
\* outcome.
decode_json(decompressed_data) ==
    IF decompressed_data.raised THEN Failed("ValueError")
    ELSE IF Len(decompressed_data.data) = 0 THEN Failed("ValueError")
    ELSE parse_decoded(utf8_decode(decompressed_data.data, <<>>))

\* extract_json_from_hg on the bytes of the file.
extract_json_from_hg(data) ==
    IF Len(data) < 18 THEN Failed("ValueError")
    ELSE decode_json(decompress_save_file(data))

\* extract_save_file after the call of extract_json_from_hg, with its outcome.
apply_mapping(extracted, mapping) ==
    IF extracted.raised THEN extracted
    ELSE Loaded(map_keys(extracted.value, mapping))

\* extract_save_file(path, apply_key_mapping=True, mapping_file) on the bytes
\* of the file and the mapping list of the mapping file.
extract_save_file(data, mapping) == apply_mapping(extract_json_from_hg(data), mapping)

----------------------------------------------------------------------------
(* recompressor.py: recompress_save *)

\* recompress_save(data, output_path, mapping_file): the bytes written to
\* output_path.
recompress_save(data, mapping) ==
    compress_json_bytes(utf8_encode(dumps_compact(reverse_map_keys(data, mapping)))).data

----------------------------------------------------------------------------
(* utils/save_metadata.py: extract_metadata_from_partial_json and           *)
(* get_save_metadata                                                        *)

\* None as a value of a dictionary.
Null == [t |-> "null", v |-> <<>>]

\* bool(x) of a tree value, as the operator `or` takes it.
Truthy(x) ==
    IF x.t = "null" THEN FALSE
    ELSE IF x.t = "num" THEN x.v # <<"0">>
    ELSE x.v # <<>>

\* data.get(key): None for a missing key.
DictGet(d, key) == IF key \in DictKeys(d) THEN DictAt(d, key) ELSE Null

\* a or b
Or(a, b) == IF Truthy(a) THEN a ELSE b

\* The key names "Version" and "F2P".
Version == <<"V", "e", "r", "s", "i", "o", "n">>

F2P == <<"F", "2", "P">>

\* list(data.keys())[:50] takes at most this many keys.
TopLevelKeys == 50

\* The fields read from the parsed object data: the version
\* (data.get("Version") or data.get("F2P")) and the first top-level keys.
metadata_of(data) ==
    [version        |-> Or(DictGet(data.v, Version), DictGet(data.v, F2P)),
     top_level_keys |-> Slice([i \in 1..Len(data.v) |-> data.v[i][1]], 0, TopLevelKeys)]

\* The statements after data has been parsed and mapped: data.get raises
\* AttributeError, which no handler catches, when data is not a dict.
read_fields(data) ==
    IF data.t # "obj" THEN Failed("AttributeError")
    ELSE Loaded(metadata_of(data))

\* if mapping: data = map_keys(data, mapping)
deobfuscate(data, mapping) == IF mapping # <<>> THEN map_keys(data, mapping) ELSE data

\* The metadata of the handler of json.JSONDecodeError, which reads the
\* fields from the text with patterns: none of them for a text without the
\* key names.
manual_metadata == [version |-> Null, top_level_keys |-> <<>>]

\* The try block once process_json_string_to_valid_json has run, with its
\* outcome processed and parsed the outcome of json.loads on its value.
read_processed(processed, parsed, mapping) ==
    IF processed.raised THEN Failed("ValueError")
    ELSE IF parsed.ok THEN read_fields(deobfuscate(parsed.val, mapping))
    ELSE IF parsed.err = "digits" THEN Failed("ValueError")
    ELSE Loaded(manual_metadata)

\* json.loads(json_str) of the try block, and the second attempt of its
\* handler: json.loads of the text processed once more.
loads_twice(processed) ==
    IF processed.raised \/ json_loads(processed.value).ok \/ json_loads(processed.value).err = "digits"
    THEN json_loads(processed.value)
    ELSE json_loads(process_json_string_to_valid_json(processed.value).value)

\* extract_metadata_from_partial_json(json_str, use_key_mapping=True), with
\* mapping the mapping list that was obtained (empty for none).
extract_metadata_from_partial_json(json_str, mapping) ==
    read_processed(process_json_string_to_valid_json(json_str),
                   loads_twice(process_json_string_to_valid_json(json_str)), mapping)

\* get_save_metadata after the file has been read and partially decoded,
\* with decoded the outcome of decompressed_data.decode('utf-8').
metadata_of_decoded(decompressed_data, decoded, mapping) ==
    IF Len(decompressed_data) = 0 THEN Failed("ValueError")
    ELSE IF ~decoded.ok THEN Failed("ValueError")
    ELSE extract_metadata_from_partial_json(decoded.text, mapping)

\* get_save_metadata(path) on the bytes of the file, with the byte budget
\* handed to decompress_first_block.
get_save_metadata(data, max_bytes, mapping) ==
    metadata_of_decoded(decompress_first_block(data, max_bytes),
                        utf8_decode(decompress_first_block(data, max_bytes), <<>>), mapping)

----------------------------------------------------------------------------
(* src/key_mapper.py: where a key mapping comes from.  A file is a record
   [exists, age, text]: whether the path exists, the days since it was
   modified, and its characters. *)

CACHE_MAX_AGE_DAYS == 7

Mapping == <<"M", "a", "p", "p", "i", "n", "g">>

NoFile == [exists |-> FALSE, age |-> 0, text |-> <<>>]

FileOf(text, age) == [exists |-> TRUE, age |-> age, text |-> text]

\* What a call for a mapping comes to: the mapping or the exception, whether
\* a download was attempted, and the cache file it leaves.
Obtained(r, fetched, cache_path) ==
    [raised |-> r.raised, error |-> r.error, value |-> r.value,
     fetched |-> fetched, cache |-> cache_path]

\* The mapping in a parsed mapping document: the list itself, or the Mapping
\* field of an object.
mapping_in(r) ==
    IF ~r.ok THEN Failed(IF r.err = "digits" THEN "ValueError" ELSE "JSONDecodeError")
    ELSE IF r.val.t = "obj" /\ Mapping \in DictKeys(r.val.v)
    THEN Loaded(DictAt(r.val.v, Mapping))
    ELSE IF r.val.t = "arr" THEN Loaded(r.val)
    ELSE Failed("ValueError")

load_cached_mapping(cache_path) ==
    IF ~cache_path.exists THEN Failed("FileNotFoundError")
    ELSE mapping_in(json_loads(cache_path.text))

load_mapping_from_file(given) ==
    IF ~given.exists THEN Failed("FileNotFoundError")
    ELSE mapping_in(json_loads(given.text))

\* is_cache_valid, from json.load on: len(...) > 0 of the mapping, False for
\* a document of another shape or one that does not parse.
has_entries(r) ==
    IF ~r.ok
    THEN (IF r.err = "digits" THEN [raised |-> TRUE, error |-> "ValueError", valid |-> FALSE]
          ELSE [raised |-> FALSE, error |-> "none", valid |-> FALSE])
    ELSE IF mapping_in(r).raised THEN [raised |-> FALSE, error |-> "none", valid |-> FALSE]
    ELSE IF mapping_in(r).value.t \in {"num", "null"}
    THEN [raised |-> TRUE, error |-> "TypeError", valid |-> FALSE]
    ELSE [raised |-> FALSE, error |-> "none", valid |-> Len(mapping_in(r).value.v) > 0]

is_cache_valid(cache_path, max_age_days) ==
    IF ~cache_path.exists \/ cache_path.age > max_age_days
    THEN [raised |-> FALSE, error |-> "none", valid |-> FALSE]
    ELSE has_entries(json_loads(cache_path.text))

\* save_mapping_to_cache: the document written; the time stamp is left out.
cache_data(mapping) ==
    Obj(<< <<<<"l", "i", "b", "M", "B", "I", "N", "_", "v", "e", "r", "s", "i", "o", "n">>,
             Str(<<"c", "a", "c", "h", "e", "d">>)>>,
           <<<<"c", "a", "c", "h", "e", "d", "_", "a", "t">>, Str(<<>>)>>,
           <<Mapping, mapping>> >>)

save_mapping_to_cache(mapping, cache_path) == FileOf(dumps_indent(cache_data(mapping), 2, 0), 0)

\* The len(mapping) of the progress messages: TypeError for a mapping that
\* has no length.
counted(r) ==
    IF ~r.raised /\ r.value.t \in {"num", "null"}
    THEN [r EXCEPT !.raised = TRUE, !.error = "TypeError", !.value = Str(<<>>)]
    ELSE r

\* fetch_mapping: except URLError
fall_back(use_cache, cache_path) ==
    IF use_cache /\ cache_path.exists /\ ~counted(load_cached_mapping(cache_path)).raised
    THEN Obtained(load_cached_mapping(cache_path), TRUE, cache_path)
    ELSE Obtained(Failed("ConnectionError"), TRUE, cache_path)

\* fetch_mapping: what follows json.loads of the response
downloaded(r, use_cache, cache_path, writable) ==
    IF r.raised THEN Obtained(Failed("ValueError"), TRUE, cache_path)
    ELSE IF counted(r).raised THEN Obtained(counted(r), TRUE, cache_path)
    ELSE Obtained(r, TRUE,
                  IF use_cache /\ writable THEN save_mapping_to_cache(r.value, cache_path)
                  ELSE cache_path)

\* fetch_mapping: the download
download(use_cache, cache_path, response, writable) ==
    IF response.error = "URLError" THEN fall_back(use_cache, cache_path)
    ELSE IF response.error # "none" THEN Obtained(Failed(response.error), TRUE, cache_path)
    ELSE downloaded(mapping_in(json_loads(response.text)), use_cache, cache_path, writable)

\* fetch_mapping: the cache check, given what is_cache_valid came to
fetch_checked(valid, use_cache, cache_path, response, writable) ==
    IF valid.raised THEN Obtained(Failed(valid.error), FALSE, cache_path)
    ELSE IF valid.valid /\ ~counted(load_cached_mapping(cache_path)).raised
    THEN Obtained(load_cached_mapping(cache_path), FALSE, cache_path)
    ELSE download(use_cache, cache_path, response, writable)

fetch_mapping(use_cache, cache_path, response, writable) ==
    IF use_cache
    THEN fetch_checked(is_cache_valid(cache_path, CACHE_MAX_AGE_DAYS),
                       use_cache, cache_path, response, writable)
    ELSE download(use_cache, cache_path, response, writable)

\* A mapping_file argument: None, or a path and the file at it.
NoPath == [named |-> FALSE, exists |-> FALSE, age |-> 0, text |-> <<>>]

get_mapping(given, use_cache, cache_path, response, writable) ==
    IF given.named /\ given.exists
    THEN Obtained(load_mapping_from_file(given), FALSE, cache_path)
    ELSE fetch_mapping(use_cache, cache_path, response, writable)

\* recompress_save, step 1
recompress_mapping(given, cache_path, response, writable) ==
    IF ~given.named /\ cache_path.exists /\ ~counted(load_cached_mapping(cache_path)).raised
    THEN Obtained(load_cached_mapping(cache_path), FALSE, cache_path)
    ELSE counted(get_mapping(given, TRUE, cache_path, response, writable))

\* extract_metadata_from_partial_json: the mapping it looks up; any
\* exception leaves it None
swallowed(r) == IF r.raised THEN [r EXCEPT !.raised = FALSE, !.error = "none", !.value = Null] ELSE r

metadata_mapping(cache_path, response, writable) ==
    swallowed(IF cache_path.exists
              THEN Obtained(load_cached_mapping(cache_path), FALSE, cache_path)
              ELSE get_mapping(NoPath, TRUE, cache_path, response, writable))

----------------------------------------------------------------------------
(* src/utils/base_or_corvette_detection.py and SaveFileManager: the search
   for the bases and the path to them. *)

PersistentPlayerBases ==
    <<"P", "e", "r", "s", "i", "s", "t", "e", "n", "t",
      "P", "l", "a", "y", "e", "r", "B", "a", "s", "e", "s">>

DigitChars == <<"0", "1", "2", "3", "4", "5", "6", "7", "8", "9">>

\* str(n) of a natural number
RECURSIVE digits_of(_)
digits_of(n) ==
    IF n < 10 THEN <<DigitChars[n + 1]>>
    ELSE Append(digits_of(n \div 10), DigitChars[(n % 10) + 1])

\* f"[{i}]"
index_key(i) == <<"[">> \o digits_of(i) \o <<"]">>

\* find_key_recursively(data, target_key, path): what the generator yields,
\* in order, each a pair of a path and a value.
RECURSIVE find_key_recursively(_, _, _)
RECURSIVE find_in_dict(_, _, _)
RECURSIVE find_in_list(_, _, _, _)
find_in_dict(entries, target, path) ==
    IF entries = <<>> THEN <<>>
    ELSE (IF Head(entries)[1] = target
          THEN << <<Append(path, Head(entries)[1]), Head(entries)[2]>> >>
          ELSE <<>>)
         \o find_key_recursively(Head(entries)[2], target, Append(path, Head(entries)[1]))
         \o find_in_dict(Tail(entries), target, path)

find_in_list(items, i, target, path) ==
    IF i >= Len(items) THEN <<>>
    ELSE find_key_recursively(items[i + 1], target, Append(path, index_key(i)))
         \o find_in_list(items, i + 1, target, path)

find_key_recursively(data, target, path) ==
    IF data.t = "obj" THEN find_in_dict(data.v, target, path)
    ELSE IF data.t = "arr" THEN find_in_list(data.v, 0, target, path)
    ELSE <<>>

\* What a search for the bases comes to: the first path and value found.
Found(base_keys) ==
    [raised |-> FALSE, error |-> "none", path |-> base_keys[1][1], value |-> base_keys[1][2]]

NotFound(error) == [raised |-> TRUE, error |-> error, path |-> <<>>, value |-> Null]

\* SaveFileManager.load, from json.load on: any exception is raised again
\* as RuntimeError.
load(data) ==
    IF find_key_recursively(data, PersistentPlayerBases, <<>>) = <<>>
    THEN NotFound("RuntimeError")
    ELSE Found(find_key_recursively(data, PersistentPlayerBases, <<>>))

\* SaveEditor.load_bases
load_bases(data) ==
    IF find_key_recursively(data, PersistentPlayerBases, <<>>) = <<>>
    THEN NotFound("ValueError")
    ELSE Found(find_key_recursively(data, PersistentPlayerBases, <<>>))

\* int(s) of a text of decimal digits; signs, blanks and underscores are
\* not modelled.
RECURSIVE int_of(_, _)
int_of(chars, acc) ==
    IF chars = <<>> THEN acc
    ELSE int_of(Tail(chars),
                10 * acc + (CHOOSE d \in 0..9 : DigitChars[d + 1] = Head(chars)))

IsDecimal(chars) == chars # <<>> /\ \A i \in 1..Len(chars) : chars[i] \in Digits

\* current[idx] for an integer idx
at_index(current, idx) ==
    IF current.t = "arr"
    THEN (IF idx < Len(current.v) THEN Loaded(current.v[idx + 1]) ELSE Failed("IndexError"))
    ELSE IF current.t = "obj" THEN Failed("KeyError")
    ELSE IF current.t = "str"
    THEN (IF idx < Len(current.v) THEN Loaded(Str(<<current.v[idx + 1]>>))
          ELSE Failed("IndexError"))
    ELSE Failed("TypeError")

\* current[key] for a string key
at_key(current, key) ==
    IF current.t = "obj"
    THEN (IF key \in DictKeys(current.v) THEN Loaded(DictAt(current.v, key))
          ELSE Failed("KeyError"))
    ELSE Failed("TypeError")

\* _get_bases_array: one step of the navigation
step_into(current, key) ==
    IF Len(key) >= 1 /\ key[1] = "[" /\ key[Len(key)] = "]"
    THEN (IF IsDecimal(SubSeq(key, 2, Len(key) - 1))
          THEN at_index(current, int_of(SubSeq(key, 2, Len(key) - 1), 0))
          ELSE Failed("ValueError"))
    ELSE at_key(current, key)

\* _get_bases_array: the loop over self._base_path[:-1]
RECURSIVE navigate(_, _)
navigate(current, keys) ==
    IF keys = <<>> THEN Loaded(current)
    ELSE IF step_into(current, Head(keys)).raised THEN step_into(current, Head(keys))
    ELSE navigate(step_into(current, Head(keys)).value, Tail(keys))

\* _get_bases_array: current[self._base_path[-1]]
last_of(r, base_path) ==
    IF r.raised THEN r ELSE at_key(r.value, base_path[Len(base_path)])

get_bases_array(data, base_path) ==
    IF ~Truthy(data) \/ base_path = <<>> THEN Failed("ValueError")
    ELSE last_of(navigate(data, SubSeq(base_path, 1, Len(base_path) - 1)), base_path)

----------------------------------------------------------------------------
(* utils/save_file_manager.py: SaveFileManager. A manager is the record of *)
(* its fields; None is Null for the tree, "" for a path and <<>> for the   *)
(* base path. A method takes the manager and the files on disk and comes   *)
(* to an exception or not, the manager afterwards and the files afterwards.*)

\* The backup both JSON writers copy an existing destination to; the time
\* stamp in its name is left out.
backup_path(output_path) == "backups/" \o output_path

\* A path at which no file exists.
Missing == <<-1>>

\* What the files of a manager hold at a path without a file: no text.
NoSuchFile == <<"ENOENT">>

\* SaveFileManager.__init__ without a file
NewManager ==
    [save_data |-> Null, file_path |-> "", base_path |-> <<>>,
     has_changes |-> FALSE, backup_path |-> ""]

Done(m, files) == [raised |-> FALSE, error |-> "none", manager |-> m, files |-> files]

Threw(error, m, files) == [raised |-> TRUE, error |-> error, manager |-> m, files |-> files]

\* SaveFileManager.load, from the assignment of json.load(f) on: the tree is
\* stored in the manager before the bases are searched for.
load_parsed(m, files, file_path, parsed) ==
    IF ~parsed.ok THEN Threw("RuntimeError", m, files)
    ELSE IF load(parsed.val).raised
    THEN Threw("RuntimeError", [m EXCEPT !.save_data = parsed.val], files)
    ELSE Done([m EXCEPT !.save_data = parsed.val,
                            !.base_path = load(parsed.val).path,
                            !.file_path = file_path,
                            !.has_changes = FALSE],
                  files)

\* SaveFileManager.load(file_path)
manager_load(m, files, file_path) ==
    IF files[file_path] = NoSuchFile THEN Threw("FileNotFoundError", m, files)
    ELSE load_parsed(m, files, file_path, json_loads(files[file_path]))

\* bases_array[index] = new_base_data on a list: a negative index counts
\* from the end.
list_setitem(items, index, value) ==
    IF index >= Len(items) \/ index < 0 - Len(items) THEN Failed("IndexError")
    ELSE Loaded(Arr([i \in 1..Len(items) |->
                        IF i = ((index + Len(items)) % Len(items)) + 1 THEN value
                        ELSE items[i]]))

\* The tree after the list that _get_bases_array returned was changed in
\* place: the value at the path keys is the changed list.
RECURSIVE store_at(_, _, _)
store_at(current, keys, changed) ==
    IF keys = <<>> THEN changed
    ELSE IF current.t = "arr"
    THEN Arr([i \in 1..Len(current.v) |->
                 IF i = int_of(SubSeq(Head(keys), 2, Len(Head(keys)) - 1), 0) + 1
                 THEN store_at(current.v[i], Tail(keys), changed)
                 ELSE current.v[i]])
    ELSE Obj(DictSet(current.v, Head(keys),
                     store_at(DictAt(current.v, Head(keys)), Tail(keys), changed)))

\* replace_base: the test of the index against the length of the array
index_unchecked(index, length) == FALSE

index_out_of_range(index, length) == index < 0 \/ index >= length

\* replace_base, from the test of the index on; a value that is no list has
\* no item to assign.
replace_in(m, files, bases, index, new_base_data) ==
    IF bases.t # "arr" THEN Threw("TypeError", m, files)
    ELSE IF index_out_of_range(index, Len(bases.v)) THEN Threw("IndexError", m, files)
    ELSE IF list_setitem(bases.v, index, new_base_data).raised
    THEN Threw("IndexError", m, files)
    ELSE Done([m EXCEPT !.save_data =
                                store_at(m.save_data, m.base_path,
                                         list_setitem(bases.v, index, new_base_data).value),
                            !.has_changes = TRUE],
                  files)

\* SaveFileManager.replace_base(index, new_base_data)
replace_base(m, files, index, new_base_data) ==
    IF get_bases_array(m.save_data, m.base_path).raised
    THEN Threw(get_bases_array(m.save_data, m.base_path).error, m, files)
    ELSE replace_in(m, files, get_bases_array(m.save_data, m.base_path).value,
                    index, new_base_data)

\* SaveFileManager.create_backup(): the path of the backup is stored before
\* the file is copied. The time stamp in the name is left out.
create_backup(m, files) ==
    IF m.file_path = "" THEN Threw("ValueError", m, files)
    ELSE IF files[m.file_path] = NoSuchFile
    THEN Threw("FileNotFoundError",
                [m EXCEPT !.backup_path = backup_path(m.file_path)], files)
    ELSE Done([m EXCEPT !.backup_path = backup_path(m.file_path)],
                  [files EXCEPT ![backup_path(m.file_path)] = files[m.file_path]])

\* SaveFileManager.save, the try block: the tree is written to save_path.
save_written(m, files, file_path, save_path) ==
    Done([m EXCEPT !.has_changes = FALSE,
                       !.file_path = IF file_path # "" /\ file_path # m.file_path
                                     THEN file_path ELSE @],
             [files EXCEPT ![save_path] = dumps_indent(m.save_data, 2, 0)])

\* SaveFileManager.save, after the backup it asked for
save_after(backup, file_path, save_path) ==
    IF backup.raised THEN backup
    ELSE save_written(backup.manager, backup.files, file_path, save_path)

\* SaveFileManager.save, from save_path on
save_to(m, files, file_path, save_path, backup) ==
    IF save_path = "" THEN Threw("ValueError", m, files)
    ELSE IF backup /\ m.backup_path = ""
    THEN save_after(create_backup(m, files), file_path, save_path)
    ELSE save_written(m, files, file_path, save_path)

\* SaveFileManager.save(file_path, create_backup)
manager_save(m, files, file_path, backup) ==
    IF ~Truthy(m.save_data) THEN Threw("ValueError", m, files)
    ELSE save_to(m, files, file_path,
                 IF file_path # "" THEN file_path ELSE m.file_path, backup)

----------------------------------------------------------------------------
(* save_editor.py: SaveEditor.get_numer_of_components_from_base *)

ObjectsKey == <<"O", "b", "j", "e", "c", "t", "s">>

\* len(objects) if isinstance(objects, list), else 0
length_if_list(objects) == IF objects.t = "arr" THEN Len(objects.v) ELSE 0

\* The search below the base: the first occurrence of Objects, if any.
first_objects(objects_keys) ==
    IF objects_keys = <<>> THEN 0 ELSE length_if_list(objects_keys[1][2])

\* A count that looks at the top level only.
components_at_top_level(b) ==
    IF ObjectsKey \in DictKeys(b.v) THEN length_if_list(DictAt(b.v, ObjectsKey)) ELSE 0

get_numer_of_components_from_base(b) ==
    IF ObjectsKey \in DictKeys(b.v) THEN length_if_list(DictAt(b.v, ObjectsKey))
    ELSE first_objects(find_key_recursively(b, ObjectsKey, <<>>))

----------------------------------------------------------------------------
(* save_editor.py: SaveEditor.load_save_files and get_save_file_metadata;  *)
(* gui/qt_main_window.py: MainWindow._update_save_file_dropdown. A file of *)
(* the directory is a record of its name, its bytes and its modification   *)
(* time.                                                                   *)

StartsWith(s, prefix) == Len(s) >= Len(prefix) /\ SubSeq(s, 1, Len(prefix)) = prefix

EndsWith(s, suffix) ==
    Len(s) >= Len(suffix) /\ SubSeq(s, Len(s) - Len(suffix) + 1, Len(s)) = suffix

\* get_all_save_files: the names that start with "save" and end with ".hg"
RECURSIVE get_all_save_files(_)
get_all_save_files(files) ==
    IF files = <<>> THEN <<>>
    ELSE (IF StartsWith(Head(files).name, <<"s", "a", "v", "e">>)
             /\ EndsWith(Head(files).name, <<".", "h", "g">>)
          THEN <<Head(files).name>> ELSE <<>>)
         \o get_all_save_files(Tail(files))

FileNamed(files, name) == files[CHOOSE i \in 1..Len(files) : files[i].name = name]

\* get_save_metadata: max_bytes of the call of decompress_first_block
METADATA_MAX_BYTES == 10240

\* get_save_metadata(path), once the first bytes were read: the time of the
\* file is stored under last_saved.
with_last_saved(r, mtime) ==
    IF r.raised THEN r ELSE Loaded([metadata |-> r.value, last_saved |-> mtime])

\* get_save_metadata(path)
file_metadata(f, max_bytes) ==
    with_last_saved(get_save_metadata(f.data, max_bytes, <<>>), f.mtime)

\* load_save_files: the loop over self.save_files; an exception of
\* get_save_metadata leaves the loop and the call.
RECURSIVE metadata_loop(_, _, _, _)
RECURSIVE metadata_stored(_, _, _, _, _)
metadata_stored(names, files, max_bytes, entries, r) ==
    IF r.raised THEN [raised |-> TRUE, error |-> r.error, entries |-> entries]
    ELSE metadata_loop(Tail(names), files, max_bytes, DictSet(entries, Head(names), r.value))

metadata_loop(names, files, max_bytes, entries) ==
    IF names = <<>> THEN [raised |-> FALSE, error |-> "none", entries |-> entries]
    ELSE metadata_stored(names, files, max_bytes, entries,
                         file_metadata(FileNamed(files, Head(names)), max_bytes))

\* SaveEditor.load_save_files: save_files is assigned before the loop.
load_save_files(files, max_bytes, entries) ==
    [save_files |-> get_all_save_files(files),
     outcome |-> metadata_loop(get_all_save_files(files), files, max_bytes, entries)]

\* SaveEditor.get_save_file_metadata(save_file_name)
get_save_file_metadata(entries, name) ==
    IF name \in DictKeys(entries) THEN Loaded(DictAt(entries, name)) ELSE Failed("ValueError")

\* sorted(..., key=last_saved, reverse=True): a later time first, files of
\* one time in the order they had.
RECURSIVE insert_sorted(_, _, _)
insert_sorted(sorted_files, name, entries) ==
    IF sorted_files = <<>> THEN <<name>>
    ELSE IF DictAt(entries, Head(sorted_files)).last_saved >= DictAt(entries, name).last_saved
    THEN <<Head(sorted_files)>> \o insert_sorted(Tail(sorted_files), name, entries)
    ELSE <<name>> \o sorted_files

RECURSIVE sorted_by_last_saved(_, _, _)
sorted_by_last_saved(names, entries, sorted_files) ==
    IF names = <<>> THEN sorted_files
    ELSE sorted_by_last_saved(Tail(names), entries,
                              insert_sorted(sorted_files, Head(names), entries))

\* MainWindow._update_save_file_dropdown: the items of the dropdown
update_save_file_dropdown(names, entries) ==
    IF names = <<>> THEN Loaded(<<>>)
    ELSE IF \E i \in 1..Len(names) : get_save_file_metadata(entries, names[i]).raised
    THEN Failed("ValueError")
    ELSE Loaded(sorted_by_last_saved(names, entries, <<>>))

----------------------------------------------------------------------------
(* save_editor.py: the session of a SaveEditor. An editor is the record of *)
(* its fields; None is "" for a name, Null for a tree or a base, <<>> for  *)
(* the path and NoIndex for the index. A save file is held as the tree it  *)
(* decodes to, or as Unreadable when extract_save_file raises on it.       *)

NoIndex == 0 - 1

Unreadable == [t |-> "unreadable", v |-> <<>>]

\* SaveEditor.__init__
NewEditor ==
    [selected_save_file |-> "", selected_save_file_dict |-> Null, bases_path |-> <<>>,
     all_bases |-> <<>>, selected_base |-> Null, selected_base_index |-> NoIndex]

Went(e, files) == [raised |-> FALSE, error |-> "none", editor |-> e, files |-> files]

Broke(error, e, files) == [raised |-> TRUE, error |-> error, editor |-> e, files |-> files]

\* SaveEditor.select_save_file(save_file_name)
select_save_file(e, files, name) == Went([e EXCEPT !.selected_save_file = name], files)

\* SaveEditor.decompress_save_file(save_file_name): the copies it makes of
\* the file and of the tree are left out.
editor_decompress_save_file(e, files, names, name) ==
    IF name \notin names THEN Broke("ValueError", e, files)
    ELSE IF files[name] = Unreadable THEN Broke("ValueError", e, files)
    ELSE Went([e EXCEPT !.selected_save_file_dict = files[name]], files)

\* SaveEditor.load_bases()
editor_load_bases(e, files) ==
    IF e.selected_save_file_dict = Null THEN Broke("ValueError", e, files)
    ELSE IF load_bases(e.selected_save_file_dict).raised THEN Broke("ValueError", e, files)
    ELSE Went([e EXCEPT !.bases_path = load_bases(e.selected_save_file_dict).path,
                        !.all_bases = load_bases(e.selected_save_file_dict).value.v],
              files)

BaseNameKey == <<"N", "a", "m", "e">>

\* inject_selected_base_into_save_file, the two assignments: the slot of
\* the array in the tree and the slot of all_bases.
inject_at(e, files, bases, index) ==
    IF bases.raised THEN Broke(bases.error, e, files)
    ELSE IF bases.value.t # "arr" THEN Broke("TypeError", e, files)
    ELSE IF list_setitem(bases.value.v, index, e.selected_base).raised
    THEN Broke("IndexError", e, files)
    ELSE Went([e EXCEPT !.selected_save_file_dict =
                            store_at(e.selected_save_file_dict, e.bases_path,
                                     list_setitem(bases.value.v, index, e.selected_base).value),
                        !.all_bases = list_setitem(e.all_bases, index, e.selected_base).value.v],
              files)

\* SaveEditor.inject_selected_base_into_save_file()
inject_selected_base_into_save_file(e, files) ==
    IF e.selected_save_file_dict = Null THEN Broke("ValueError", e, files)
    ELSE IF e.all_bases = <<>> THEN Broke("ValueError", e, files)
    ELSE IF e.selected_base = Null THEN Broke("ValueError", e, files)
    ELSE IF e.selected_base_index = NoIndex THEN Broke("ValueError", e, files)
    ELSE IF e.selected_base_index >= Len(e.all_bases) THEN Broke("IndexError", e, files)
    ELSE inject_at(e, files,
                   last_of(navigate(e.selected_save_file_dict,
                                    SubSeq(e.bases_path, 1, Len(e.bases_path) - 1)),
                           e.bases_path),
                   e.selected_base_index)

\* SaveEditor.recompress_save_file(output_path), called with the path of
\* the selected save file: the tree replaces that file.
recompress_save_file(e, files, output_name) ==
    IF e.selected_save_file_dict = Null THEN Broke("ValueError", e, files)
    ELSE Went(e, [files EXCEPT ![output_name] = e.selected_save_file_dict])

----------------------------------------------------------------------------
(* gui/qt_main_window.py and gui/qt_worker.py: the parts of the handlers   *)
(* that compute values.                                                    *)

BaseTypeKey == <<"B", "a", "s", "e", "T", "y", "p", "e">>

PersistentBaseTypes ==
    <<"P", "e", "r", "s", "i", "s", "t", "e", "n", "t", "B", "a", "s", "e",
      "T", "y", "p", "e", "s">>

PlayerShipBase ==
    <<"P", "l", "a", "y", "e", "r", "S", "h", "i", "p", "B", "a", "s", "e">>

ExternalPlanetBase ==
    <<"E", "x", "t", "e", "r", "n", "a", "l", "P", "l", "a", "n", "e", "t",
      "B", "a", "s", "e">>

\* base.get("BaseType", {}).get("PersistentBaseTypes") of a base whose
\* BaseType, if any, is an object
type_of(b) ==
    IF BaseTypeKey \in DictKeys(b.v) /\ DictAt(b.v, BaseTypeKey).t = "obj"
    THEN DictGet(DictAt(b.v, BaseTypeKey).v, PersistentBaseTypes)
    ELSE Null

\* _filter_and_display_bases: the bases of a type, in the order of all_bases
RECURSIVE bases_of_type(_, _)
bases_of_type(bases, base_type) ==
    IF bases = <<>> THEN <<>>
    ELSE (IF type_of(Head(bases)) = Str(base_type) THEN <<Head(bases)>> ELSE <<>>)
         \o bases_of_type(Tail(bases), base_type)

\* _filter_and_display_bases(base_type): the new filtered_bases
filter_and_display_bases(all_bases, filtered_bases, base_type) ==
    IF all_bases = <<>> THEN filtered_bases
    ELSE IF base_type = <<"b", "o", "t", "h">> THEN all_bases
    ELSE bases_of_type(all_bases, base_type)

\* MainWindow.__init__: the buttons as _create_ui leaves them
NewWindow ==
    [load_file_btn |-> TRUE, edit_base_btn |-> FALSE, inject_base_btn |-> FALSE,
     count_components_btn |-> FALSE, base_type_section |-> FALSE,
     filtered_bases |-> <<>>, selected_base_index |-> NoIndex]

\* No worker was started.
NoWorkers ==
    [decompress |-> [pc |-> "none", save_file_name |-> "", success |-> FALSE],
     inject |-> [pc |-> "none", success |-> FALSE],
     count |-> [pc |-> "none", success |-> FALSE]]

----------------------------------------------------------------------------
(* Values of the variables a scenario does not use *)

NoTree == Str(<<>>)

NoSecond == [op |-> "none", value |-> NoTree]

CodecIdle ==
    /\ json_bytes = <<>>
    /\ hg_data = <<>>
    /\ block_count = 0
    /\ tamper = [kind |-> "none", at |-> 0, n |-> 0]
    /\ decoder = "none"
    /\ decompressed = [raised |-> FALSE, data |-> <<-1>>]

MapperIdle ==
    /\ tree = NoTree
    /\ mapping_table = <<>>
    /\ direction = "none"
    /\ mapped = NoTree
    /\ second = NoSecond

NotRecovered == [raised |-> FALSE, value |-> <<>>]

TextIdle ==
    /\ partial = <<>>
    /\ recovered = NotRecovered

NotLoaded == [raised |-> FALSE, error |-> "none", value |-> NoTree]

SaveIdle ==
    /\ save = NoTree
    /\ mapping_file = <<>>
    /\ save_file = <<>>
    /\ loaded = NotLoaded
    /\ reloaded = NotLoaded

NoRun == [returned |-> <<>>, blocks |-> 0, before |-> 0]

FileIdle ==
    /\ file = <<>>
    /\ byte_budget = 0
    /\ first_bytes = NoRun
    /\ outcome = NotLoaded
    /\ metadata = NotLoaded

WriteIdle ==
    /\ writer = "none"
    /\ content = <<>>
    /\ destination = ""
    /\ previous = Missing
    /\ disk = <<>>
    /\ write_error = "none"

NoRequest ==
    [function |-> "none", mapping_file |-> NoPath, use_cache |-> FALSE, cache |-> NoFile]

NotObtained == Obtained(Loaded(Null), FALSE, NoFile)

ProviderIdle ==
    /\ cache_file = NoFile
    /\ remote = [error |-> "none", text |-> <<>>]
    /\ cache_writable = FALSE
    /\ request = NoRequest
    /\ obtained = NotObtained

BasesIdle ==
    /\ save_data = Null
    /\ loaded_path = NotFound("none")
    /\ bases_array = NotLoaded

NoCall ==
    [op |-> "none", raised |-> FALSE, error |-> "none", before |-> NewManager,
     files |-> <<>>, path |-> "", index |-> 0, value |-> Null, backup |-> FALSE,
     n |-> 0]

ManagerIdle ==
    /\ manager = NewManager
    /\ folder = <<>>
    /\ call = NoCall
    /\ backed_up = FALSE

ComponentsIdle ==
    /\ base = Null
    /\ component_count = 0

NotListed == [raised |-> FALSE, error |-> "none"]

ListingIdle ==
    /\ directory = <<>>
    /\ save_files = <<>>
    /\ save_file_metadata = <<>>
    /\ listed = NotListed
    /\ dropdown = NotLoaded

\* The history at the start: no tree, no click, no injection, no file written.
NoTrail ==
    [origin |-> "", clicked |-> Null,
     injection |-> [done |-> FALSE, at |-> NoIndex, replaced |-> Null],
     wrote |-> [file |-> "", origin |-> ""], clicks |-> 0]

WindowIdle ==
    /\ editor = NewEditor
    /\ window = NewWindow
    /\ workers = NoWorkers
    /\ hg_files = <<>>
    /\ trail = NoTrail

\* No decoder is being stepped.
NoScan ==
    [data |-> <<>>, on_fail |-> "", status |-> "none", pos |-> 0, out |-> <<>>,
     resynced |-> FALSE, start |-> 0, iterations |-> 0]

ScanIdle == din = NoScan

----------------------------------------------------------------------------
(* The codec scenario: a payload is encoded, the container may be damaged  *)
(* on disk, and the container is decoded.                                  *)

\* Byte values payloads are drawn from: a letter and the first byte of the magic.
PayloadBytes == {97, 229}

\* Byte values of stray bytes: they cannot spell the magic.
JunkBytes == {0, 229}

\* Payloads are up to two full chunks and one byte long: three blocks.
MaxPayload == 2 * MAX_UNCOMPRESSED_BLOCK_SIZE + 1

NoTamper == [kind |-> "none", at |-> 0, n |-> 0]

None == [raised |-> FALSE, data |-> <<-1>>]

\* Offsets at which a block starts in an undamaged container, and its end.
BlockStarts(bytes) ==
    {k * (BLOCK_HEADER_SIZE + 1) + k * MAX_UNCOMPRESSED_BLOCK_SIZE :
        k \in 0..((Len(bytes) + MAX_UNCOMPRESSED_BLOCK_SIZE - 1) \div MAX_UNCOMPRESSED_BLOCK_SIZE)}

InitCodec ==
    /\ pc = "input"
    /\ json_bytes \in SeqsOf(PayloadBytes, 0, MaxPayload)
    /\ hg_data = <<>>
    /\ block_count = 0
    /\ tamper = NoTamper
    /\ decoder = "none"
    /\ decompressed = None
    /\ MapperIdle
    /\ TextIdle
    /\ SaveIdle
    /\ FileIdle
    /\ WriteIdle
    /\ ProviderIdle
    /\ BasesIdle
    /\ ManagerIdle
    /\ ComponentsIdle
    /\ ListingIdle
    /\ WindowIdle
    /\ ScanIdle

\* compress_json_bytes(json_bytes), its result written to the file.
Compress ==
    /\ pc = "input"
    /\ LET r == compress_json_bytes(json_bytes)
       IN  /\ hg_data' = r.data
           /\ block_count' = r.block_count
    /\ pc' = "written"
    /\ UNCHANGED <<json_bytes, tamper, decoder, decompressed, outsideCodec>>

\* Stray bytes appear at a block boundary (before the first block, between
\* two blocks or after the last).
InsertJunk ==
    /\ pc = "written"
    /\ \E at \in BlockStarts(json_bytes), junk \in SeqsOf(JunkBytes, 1, MaxJunk) :
          /\ at <= Len(hg_data)
          /\ hg_data' = Slice(hg_data, 0, at) \o junk \o Slice(hg_data, at, Len(hg_data))
          /\ tamper' = [kind |-> "junk", at |-> at, n |-> Len(junk)]
    /\ pc' = "damaged"
    /\ UNCHANGED <<json_bytes, block_count, decoder, decompressed, outsideCodec>>

\* The file is cut short.
Truncate ==
    /\ pc = "written"
    /\ \E n \in 0..(Len(hg_data) - 1) :
          /\ hg_data' = Slice(hg_data, 0, n)
          /\ tamper' = [kind |-> "truncate", at |-> n, n |-> Len(hg_data) - n]
    /\ pc' = "damaged"
    /\ UNCHANGED <<json_bytes, block_count, decoder, decompressed, outsideCodec>>

\* The LZ4 token of one block is overwritten, so that the block no longer
\* decompresses.
CorruptBlock ==
    /\ pc = "written"
    /\ \E at \in BlockStarts(json_bytes) :
          /\ at + BLOCK_HEADER_SIZE < Len(hg_data)
          /\ hg_data' = [hg_data EXCEPT ![at + BLOCK_HEADER_SIZE + 1] = 255]
          /\ tamper' = [kind |-> "corrupt", at |-> at, n |-> 1]
    /\ pc' = "damaged"
    /\ UNCHANGED <<json_bytes, block_count, decoder, decompressed, outsideCodec>>

\* utils/save_extractor.py: decompress_save_file(hg_data)
Decompress ==
    /\ pc \in {"written", "damaged"}
    /\ decompressed' = decompress_save_file(hg_data)
    /\ decoder' = "utils"
    /\ pc' = "done"
    /\ UNCHANGED <<json_bytes, hg_data, block_count, tamper, outsideCodec>>

\* extract_nms_to_save_mapped_json.py: decompress_save_file(hg_data)
DecompressCli ==
    /\ pc \in {"written", "damaged"}
    /\ decompressed' = decompress_save_file_cli(hg_data)
    /\ decoder' = "cli"
    /\ pc' = "done"
    /\ UNCHANGED <<json_bytes, hg_data, block_count, tamper, outsideCodec>>

NextCodec ==
    Compress \/ InsertJunk \/ Truncate \/ CorruptBlock \/ Decompress \/ DecompressCli

SpecCodec == InitCodec /\ [][NextCodec]_vars

----------------------------------------------------------------------------
(* Properties of the block codec *)

\* Number of chunks of a payload of n bytes: ceil(n / MAX_UNCOMPRESSED_BLOCK_SIZE).
ChunkCount(n) == (n + MAX_UNCOMPRESSED_BLOCK_SIZE - 1) \div MAX_UNCOMPRESSED_BLOCK_SIZE

\* The i-th chunk (from 1) of a payload.
Chunk(bytes, i) ==
    Slice(bytes, (i - 1) * MAX_UNCOMPRESSED_BLOCK_SIZE, i * MAX_UNCOMPRESSED_BLOCK_SIZE)

RECURSIVE Concat(_)
Concat(ss) == IF ss = <<>> THEN <<>> ELSE Head(ss) \o Concat(Tail(ss))

\* C1: decoding the container that compress_json_bytes produced for a payload
\* gives the payload back, for the empty payload, a payload of exactly one
\* chunk and one of a chunk and a byte alike.
C1_RoundTrip ==
    (pc = "done" /\ tamper.kind = "none")
        => (~decompressed.raised /\ decompressed.data = json_bytes)

C1_Witness ==
    /\ pc = "done"
    /\ tamper.kind = "none"
    /\ decoder = "utils"
    /\ Len(json_bytes) = MAX_UNCOMPRESSED_BLOCK_SIZE + 1
    /\ block_count = 2
    /\ decompressed.data = json_bytes

\* C3: with a non-empty run of stray bytes (that does not contain the magic)
\* between two valid blocks, the decoder still finds the second block: it
\* returns the whole payload.
C3_ReSync ==
    (/\ pc = "done"
     /\ tamper.kind = "junk"
     /\ 0 < tamper.at
     /\ tamper.at + tamper.n < Len(hg_data))
        => (~decompressed.raised /\ decompressed.data = json_bytes)

\* C4: the decoder never raises; when a block fails to decompress, it returns
\* the output of the blocks before it.
C4_NeverRaises ==
    pc = "done" =>
        /\ ~decompressed.raised
        /\ tamper.kind = "corrupt" =>
              decompressed.data =
                  Slice(json_bytes, 0,
                        (tamper.at \div (BLOCK_HEADER_SIZE + 1 + MAX_UNCOMPRESSED_BLOCK_SIZE))
                            * MAX_UNCOMPRESSED_BLOCK_SIZE)

\* C5: the container is exactly the blocks of the payload's chunks, in order
\* with nothing between them; there are ceil(n / chunk size) of them; each is
\* the magic, the length of its compressed payload, the length of its chunk,
\* four zero bytes and the compressed payload; every chunk but the last is a
\* full chunk and the chunk lengths add up to n.
C5_Framing ==
    (pc = "written") =>
        LET n == Len(json_bytes)
            k == ChunkCount(n)
            block(i) ==
                BLOCK_MAGIC
                    \o pack_u32(Len(lz4_compress(Chunk(json_bytes, i))))
                    \o pack_u32(Len(Chunk(json_bytes, i)))
                    \o <<0, 0, 0, 0>>
                    \o lz4_compress(Chunk(json_bytes, i))
        IN  /\ block_count = k
            /\ hg_data = Concat([i \in 1..k |-> block(i)])
            /\ n = 0 => hg_data = <<>>
            /\ \A i \in 1..k : Len(Chunk(json_bytes, i)) \in 1..MAX_UNCOMPRESSED_BLOCK_SIZE
            /\ \A i \in 1..(k - 1) : Len(Chunk(json_bytes, i)) = MAX_UNCOMPRESSED_BLOCK_SIZE
            /\ Len(Concat([i \in 1..k |-> Chunk(json_bytes, i)])) = n
            /\ Len(hg_data) = k * BLOCK_HEADER_SIZE + k + n

C5_Witness ==
    /\ pc = "written"
    /\ Len(json_bytes) = 2 * MAX_UNCOMPRESSED_BLOCK_SIZE + 1
    /\ block_count = 3
    /\ Slice(hg_data, Len(hg_data) - 2 - BLOCK_HEADER_SIZE, Len(hg_data) - 2)
           = BLOCK_MAGIC \o <<2, 0, 0, 0>> \o <<1, 0, 0, 0>> \o <<0, 0, 0, 0>>

----------------------------------------------------------------------------
(* The key-mapping scenario: a tree is mapped in one direction, and the    *)
(* result is mapped back or mapped again.                                  *)

\* Key names of trees and Keys of mapping entries: the empty string and two
\* letters.  A Value of a mapping entry may be a third letter as well.
Names == {<<>>, <<"a">>, <<"b">>}

ValueNames == Names \cup {<<"c">>}

Leaves == {Num(<<"1">>), Str(<<"a">>)}

\* The dicts with at most MaxWidth entries, keys from Names, values from V.
DictsOver(V) ==
    {d \in SeqsOf(Names \X V, 0, MaxWidth) :
        \A i, j \in 1..Len(d) : d[i][1] = d[j][1] => i = j}

\* Leaves, the lists and dicts of leaves, and those wrapped once more.
FlatTrees ==
    Leaves \cup {Arr(s) : s \in SeqsOf(Leaves, 0, MaxWidth)}
           \cup {Obj(d) : d \in DictsOver(Leaves)}

Trees ==
    FlatTrees \cup {Arr(<<x>>) : x \in FlatTrees}
              \cup {Obj(<<<<k, x>>>>) : k \in Names, x \in FlatTrees}

Mappings == SeqsOf([Key : Names, Value : ValueNames], 0, MaxEntries)

InitMapper ==
    /\ pc = "tree"
    /\ tree \in Trees
    /\ mapping_table \in Mappings
    /\ direction = "none"
    /\ mapped = NoTree
    /\ second = NoSecond
    /\ CodecIdle
    /\ TextIdle
    /\ SaveIdle
    /\ FileIdle
    /\ WriteIdle
    /\ ProviderIdle
    /\ BasesIdle
    /\ ManagerIdle
    /\ ComponentsIdle
    /\ ListingIdle
    /\ WindowIdle
    /\ ScanIdle

\* map_keys(tree, mapping_table)
MapKeys ==
    /\ pc = "tree"
    /\ mapped' = map_keys(tree, mapping_table)
    /\ direction' = "map"
    /\ pc' = "mapped"
    /\ UNCHANGED <<tree, mapping_table, second, outsideMapper>>

\* reverse_map_keys(tree, mapping_table)
ReverseMapKeys ==
    /\ pc = "tree"
    /\ mapped' = reverse_map_keys(tree, mapping_table)
    /\ direction' = "reverse"
    /\ pc' = "mapped"
    /\ UNCHANGED <<tree, mapping_table, second, outsideMapper>>

\* reverse_map_keys(map_keys(tree, mapping_table), mapping_table)
MapBack ==
    /\ pc = "mapped"
    /\ direction = "map"
    /\ second' = [op |-> "reverse", value |-> reverse_map_keys(mapped, mapping_table)]
    /\ pc' = "second"
    /\ UNCHANGED <<tree, mapping_table, direction, mapped, outsideMapper>>

\* map_keys(map_keys(tree, mapping_table), mapping_table)
MapAgain ==
    /\ pc = "mapped"
    /\ direction = "map"
    /\ second' = [op |-> "map", value |-> map_keys(mapped, mapping_table)]
    /\ pc' = "second"
    /\ UNCHANGED <<tree, mapping_table, direction, mapped, outsideMapper>>

NextMapper == MapKeys \/ ReverseMapKeys \/ MapBack \/ MapAgain

SpecMapper == InitMapper /\ [][NextMapper]_vars

----------------------------------------------------------------------------
(* Properties of the key mapper *)

\* Every object key that occurs anywhere in a tree.
RECURSIVE AllKeys(_)
AllKeys(x) ==
    IF x.t = "arr" THEN UNION {AllKeys(x.v[i]) : i \in 1..Len(x.v)}
    ELSE IF x.t = "obj"
    THEN DictKeys(x.v) \cup UNION {AllKeys(x.v[i][2]) : i \in 1..Len(x.v)}
    ELSE {}

KeySet(m) == {m[i].Key : i \in 1..Len(m)}

ValueSet(m) == {m[i].Value : i \in 1..Len(m)}

\* Two entries have the same Key exactly when they have the same Value, and
\* no Key and no Value is the empty string.
OneToOne(m) ==
    /\ \A i, j \in 1..Len(m) : (m[i].Key = m[j].Key) <=> (m[i].Value = m[j].Value)
    /\ <<>> \notin KeySet(m) \cup ValueSet(m)

\* No Key and no Value of the mapping is the empty string.
NoEmptyName(m) == <<>> \notin KeySet(m) \cup ValueSet(m)

\* The lookup table of the direction that produced mapped.
Lookup == IF direction = "map" THEN key_map_of(mapping_table) ELSE value_map_of(mapping_table)

RoundTripDone == pc = "second" /\ second.op = "reverse"

\* C6 as stated: when every key of the tree is a Key of the mapping, mapping
\* the keys and mapping them back gives the tree.  (Stated for mappings
\* without empty names, which is all the refutation needs.)
C6_RoundTrip_Original ==
    (/\ RoundTripDone
     /\ AllKeys(tree) \subseteq KeySet(mapping_table)
     /\ NoEmptyName(mapping_table))
        => DeepEq(second.value, tree)

\* C6, amended: when every key of the tree is a Key of the mapping and the
\* mapping is one-to-one with no empty Key or Value, mapping the keys and
\* mapping them back gives the tree.
C6_RoundTrip ==
    (RoundTripDone /\ AllKeys(tree) \subseteq KeySet(mapping_table) /\ OneToOne(mapping_table))
        => DeepEq(second.value, tree)

C6_Witness ==
    /\ RoundTripDone
    /\ OneToOne(mapping_table)
    /\ AllKeys(tree) = {<<"a">>, <<"b">>}
    /\ AllKeys(tree) \subseteq KeySet(mapping_table)
    /\ AllKeys(mapped) = {<<"b">>, <<"c">>}
    /\ ~DeepEq(mapped, tree)
    /\ DeepEq(second.value, tree)

\* out keeps what the claim C7 says it keeps of in.  Lists keep their length
\* and order, leaves are unchanged, and in a dict every key that is absent from
\* the lookup table is a key of the output dict and is bound to the kept image
\* of its own value.  With strict = FALSE the binding is only required when no
\* later entry of the same dict is stored under that name.  An entry with a
\* lookup hit is followed under its new name, so that dicts below it are
\* examined too.
RECURSIVE Kept(_, _, _, _)
Kept(in, out, lookup, strict) ==
    IF in.t = "arr"
    THEN /\ out.t = "arr"
         /\ Len(out.v) = Len(in.v)
         /\ \A i \in 1..Len(in.v) : Kept(in.v[i], out.v[i], lookup, strict)
    ELSE IF in.t = "obj"
    THEN /\ out.t = "obj"
         /\ \A i \in 1..Len(in.v) :
              LET k  == in.v[i][1]
                  tk == target_key(lookup, k)
                  overwritten ==
                      \E j \in (i + 1)..Len(in.v) : target_key(lookup, in.v[j][1]) = tk
              IN  /\ k \notin DictKeys(lookup) =>
                        /\ k \in DictKeys(out.v)
                        /\ (strict \/ ~overwritten) =>
                              Kept(in.v[i][2], DictAt(out.v, k), lookup, strict)
                  /\ (k \in DictKeys(lookup) /\ ~overwritten) =>
                        /\ tk \in DictKeys(out.v)
                        /\ Kept(in.v[i][2], DictAt(out.v, tk), lookup, strict)
    ELSE out = in

\* C7 as stated: a key absent from the lookup table is never dropped and keeps
\* the image of its own value; lists keep length and order; leaves are unchanged.
\* (Stated for mappings without empty names.)
C7_NoKeyDropped_Original ==
    (pc = "mapped" /\ NoEmptyName(mapping_table)) => Kept(tree, mapped, Lookup, TRUE)

\* C7, amended: a key absent from the lookup table is always a key of the
\* output dict, and it is bound to the image of its own value unless a later
\* entry of the same dict is renamed to that name (the later write wins);
\* lists keep length and order; leaves are unchanged.
C7_NoKeyDropped ==
    pc = "mapped" => Kept(tree, mapped, Lookup, FALSE)

C7_Witness ==
    /\ pc = "mapped"
    /\ direction = "map"
    /\ tree.t = "obj"
    /\ Len(tree.v) = 1
    /\ tree.v[1][2].t = "obj"
    /\ Len(tree.v[1][2].v) = 2
    /\ Len(mapped.v[1][2].v) = 2
    /\ \E i \in 1..2 : tree.v[1][2].v[i][1] \notin KeySet(mapping_table)
    /\ \E i \in 1..2 : tree.v[1][2].v[i][1] # mapped.v[1][2].v[i][1]

\* The value of the first entry of the list whose field `from` is key.
FirstMatch(m, from, to, key) ==
    m[CHOOSE i \in 1..Len(m) : m[i][from] = key /\ \A j \in 1..(i - 1) : m[j][from] # key][to]

\* C8: when several entries have the same Key (the same Value, for the reverse
\* direction), the first of them in list order is the one applied: an entry of
\* a dict whose key has a match is stored under the name the first match gives.
\* (Stated for mappings without empty names.)
C8_FirstMatchWins ==
    (pc = "mapped" /\ tree.t = "obj" /\ NoEmptyName(mapping_table)) =>
        LET from == IF direction = "map" THEN "Key" ELSE "Value"
            to   == IF direction = "map" THEN "Value" ELSE "Key"
        IN  \A i \in 1..Len(tree.v) :
              LET k == tree.v[i][1]
              IN  ((\E e \in 1..Len(mapping_table) : mapping_table[e][from] = k)
                     /\ FirstMatch(mapping_table, from, to, k) # <<>>)
                    => FirstMatch(mapping_table, from, to, k) \in DictKeys(mapped.v)

\* b can be reached from a along one or more entries Key -> Value, in at most
\* n steps.
RECURSIVE Reaches(_, _, _, _)
Reaches(m, a, b, n) ==
    /\ n > 0
    /\ \E i \in 1..Len(m) :
          /\ m[i].Key = a
          /\ (m[i].Value = b \/ Reaches(m, m[i].Value, b, n - 1))

NoCycles(m) == \A a \in KeySet(m) : ~Reaches(m, a, a, Len(m))

\* No name that an entry maps to is itself mapped to a different name.
NoChains(m) ==
    \A i, j \in 1..Len(m) : m[j].Key = m[i].Value => m[j].Value \in {m[i].Value, <<>>}

MappedTwice == pc = "second" /\ second.op = "map"

\* C9 as stated: with a mapping without cycles, map_keys applied to its own
\* result changes nothing.
\* (Stated for mappings without empty names.)
C9_Idempotent_Original ==
    (MappedTwice /\ NoCycles(mapping_table) /\ NoEmptyName(mapping_table))
        => DeepEq(second.value, mapped)

\* C9, amended: with a mapping without chains (no name that an entry maps to is
\* itself mapped to a different name), map_keys applied to its own result
\* changes nothing.
C9_Idempotent ==
    (MappedTwice /\ NoChains(mapping_table)) => DeepEq(second.value, mapped)

C9_Witness ==
    /\ MappedTwice
    /\ NoChains(mapping_table)
    /\ Len(mapping_table) = 2
    /\ tree.t = "obj"
    /\ Len(tree.v) = 2
    /\ DictKeys(tree.v) \subseteq KeySet(mapping_table)
    /\ DictKeys(mapped.v) \cap DictKeys(tree.v) = {}
    /\ DeepEq(second.value, mapped)

----------------------------------------------------------------------------
(* The recovery scenario: a text, possibly cut short, is repaired.          *)

\* Longest text of arbitrary characters.
MaxText == 3

\* The characters of arbitrary texts.
TextChars == {"{", "}", "[", "]", QUOTE, ":", ",", "a", "1", " ", BACKSLASH}

\* A document with nested objects, a list, and strings that hold a space, a
\* quote and a backslash.
Document ==
    Obj(<< <<<<"a">>, Num(<<"1">>)>>,
           <<<<"b">>, Obj(<< <<<<"a">>, Num(<<"2">>)>>,
                             <<<<"b">>, Str(<<"a", " ", "a">>)>> >>)>>,
           <<<<>>, Arr(<<Num(<<"1">>), Str(<<QUOTE, BACKSLASH>>)>>)>> >>)

\* s[:k] for every k.
Prefixes(s) == {Slice(s, 0, k) : k \in 0..Len(s)}

\* Integer literals of the longest length int() accepts, and of one digit more.
LongNumbers ==
    {Repeat("1", default_max_str_digits), Repeat("1", default_max_str_digits + 1)}

\* An object cut immediately after a key and its colon:
\* {"a":1,"b":{"c":2,"d":
DanglingKey ==
    <<"{", QUOTE, "a", QUOTE, ":", "1", ",", QUOTE, "b", QUOTE, ":", "{",
      QUOTE, "c", QUOTE, ":", "2", ",", QUOTE, "d", QUOTE, ":">>

RecoveryInputs ==
    SeqsOf(TextChars, 0, MaxText)
        \cup Prefixes(dumps_compact(Document))
        \cup Prefixes(dumps_default(Document))
        \cup LongNumbers
        \cup {DanglingKey}

InitText ==
    /\ pc = "text"
    /\ partial \in RecoveryInputs
    /\ recovered = NotRecovered
    /\ CodecIdle
    /\ MapperIdle
    /\ SaveIdle
    /\ FileIdle
    /\ WriteIdle
    /\ ProviderIdle
    /\ BasesIdle
    /\ ManagerIdle
    /\ ComponentsIdle
    /\ ListingIdle
    /\ WindowIdle
    /\ ScanIdle

\* process_json_string_to_valid_json(partial)
Recover ==
    /\ pc = "text"
    /\ recovered' = process_json_string_to_valid_json(partial)
    /\ pc' = "recovered"
    /\ UNCHANGED <<partial, outsideText>>

NextText == Recover

SpecText == InitText /\ [][NextText]_vars

----------------------------------------------------------------------------
(* Properties of the recovery *)

\* C10: process_json_string_to_valid_json never raises; for every input text
\* it returns a string that parses as one JSON value.
C10_NeverRaises ==
    pc = "recovered" => /\ ~recovered.raised
                        /\ json_loads(recovered.value).ok

\* The members that are complete in DanglingKey: {"a":1,"b":{"c":2}}
DanglingKeyKept ==
    Obj(<< <<<<"a">>, Num(<<"1">>)>>,
           <<<<"b">>, Obj(<< <<<<"c">>, Num(<<"2">>)>> >>)>> >>)

\* C11: for the object cut immediately after "d": the recovery strips only
\* the dangling key and colon and closes the open structures, so its result
\* is equivalent to {"a":1,"b":{"c":2}}.
C11_DanglingKey ==
    (pc = "recovered" /\ partial = DanglingKey) =>
        /\ ~recovered.raised
        /\ json_loads(recovered.value).ok
        /\ DeepEq(json_loads(recovered.value).val, DanglingKeyKept)

----------------------------------------------------------------------------
(* The save scenario: a save file is made from a tree, extracted,           *)
(* recompressed to the same path and extracted again.                       *)

\* The names an identity mapping may list, in a fixed order.
NameList == <<<<>>, <<"a">>, <<"b">>>>

\* The mapping list [{Key: n, Value: n}] over the names at the offsets in S.
IdentityOver(S) ==
    LET picked == SelectSeq([i \in 1..Len(NameList) |-> i], LAMBDA i : i \in S)
    IN  [j \in 1..Len(picked) |-> [Key |-> NameList[picked[j]], Value |-> NameList[picked[j]]]]

IdentityMappings == {IdentityOver(S) : S \in SUBSET (1..Len(NameList))}

\* The shape of a save: a version, and a list of bases with a name, a nested
\* type and a list of objects.
ExampleSave ==
    Obj(<< <<<<"a">>, Num(<<"1">>)>>,
           <<<<"b">>, Arr(<<Obj(<< <<<<"a">>, Str(<<"b">>)>>,
                                   <<<<"b">>, Obj(<< <<<<"b">>, Str(<<"a", "b">>)>> >>)>>,
                                   <<<<>>, Arr(<<Num(<<"1">>), Num(<<"2">>)>>)>> >>)>>)>> >>)

\* The trees of the key-mapping scenario, the example, and trees whose
\* strings need escaping or more than one byte per character.
SaveTrees ==
    Trees \cup {ExampleSave,
                Str(<<QUOTE, BACKSLASH>>),
                Obj(<< <<<<QUOTE>>, Str(<<"é", " ">>)>> >>),
                Arr(<<Arr(<<>>), Obj(<<>>)>>)}

InitSave ==
    /\ pc = "save"
    /\ save \in SaveTrees
    /\ mapping_file \in IdentityMappings
    /\ save_file = <<>>
    /\ loaded = NotLoaded
    /\ reloaded = NotLoaded
    /\ CodecIdle
    /\ MapperIdle
    /\ TextIdle
    /\ FileIdle
    /\ WriteIdle
    /\ ProviderIdle
    /\ BasesIdle
    /\ ManagerIdle
    /\ ComponentsIdle
    /\ ListingIdle
    /\ WindowIdle
    /\ ScanIdle

\* The save file is made: the tree serialised compactly, encoded as UTF-8 and
\* block-encoded.
WriteSave ==
    /\ pc = "save"
    /\ save_file' = compress_json_bytes(utf8_encode(dumps_compact(save))).data
    /\ pc' = "saved"
    /\ UNCHANGED <<save, mapping_file, loaded, reloaded, outsideSave>>

\* extract_save_file(path, True, mapping_file)
ExtractSave ==
    /\ pc = "saved"
    /\ loaded' = extract_save_file(save_file, mapping_file)
    /\ pc' = "loaded"
    /\ UNCHANGED <<save, mapping_file, save_file, reloaded, outsideSave>>

\* recompress_save(loaded tree, path, mapping_file)
RecompressSave ==
    /\ pc = "loaded"
    /\ ~loaded.raised
    /\ save_file' = recompress_save(loaded.value, mapping_file)
    /\ pc' = "recompressed"
    /\ UNCHANGED <<save, mapping_file, loaded, reloaded, outsideSave>>

\* extract_save_file(path, True, mapping_file) on the recompressed file
ExtractAgain ==
    /\ pc = "recompressed"
    /\ reloaded' = extract_save_file(save_file, mapping_file)
    /\ pc' = "reloaded"
    /\ UNCHANGED <<save, mapping_file, save_file, loaded, outsideSave>>

NextSave == WriteSave \/ ExtractSave \/ RecompressSave \/ ExtractAgain

SpecSave == InitSave /\ [][NextSave]_vars

----------------------------------------------------------------------------
(* Properties of the save scenario *)

\* C2: with an identity mapping, extract, recompress and extract again of a
\* file made from a tree yields a tree deeply equal to the result of the first
\* extract and to the tree the file was made from.
C2_EndToEnd ==
    pc = "reloaded" => /\ ~loaded.raised
                       /\ ~reloaded.raised
                       /\ DeepEq(reloaded.value, loaded.value)
                       /\ DeepEq(reloaded.value, save)

\* The example save has made the whole trip with a mapping that lists its
\* keys, through a file of several blocks.
C2_Witness ==
    /\ pc = "reloaded"
    /\ save = ExampleSave
    /\ Len(mapping_file) = Len(NameList)
    /\ Len(save_file) > 2 * (BLOCK_HEADER_SIZE + 1 + MAX_UNCOMPRESSED_BLOCK_SIZE)
    /\ reloaded = Loaded(ExampleSave)

----------------------------------------------------------------------------
(* The file scenario: a file, which may be a save that was cut short or no  *)
(* save at all, is handed to the full extractor, to the metadata extractor  *)
(* or to the bounded decoder.                                               *)

\* Largest byte budget.  The program's budget is 10240 bytes
\* (utils/save_metadata.py:510); the model scales it down with the chunk size.
MaxBudget == 4

\* A save whose first key takes two bytes: {"é":1,"a":{"b":"a"}}
ObjectDocument ==
    Obj(<< <<<<"é">>, Num(<<"1">>)>>,
           <<<<"a">>, Obj(<< <<<<"b">>, Str(<<"a">>)>> >>)>> >>)

\* A document whose top-level value is a list: [{"a":1},{"b":2}]
ListDocument ==
    Arr(<<Obj(<< <<<<"a">>, Num(<<"1">>)>> >>), Obj(<< <<<<"b">>, Num(<<"2">>)>> >>)>>)

FileDocuments == {ObjectDocument, ListDocument}

\* The documents, every cut of their bytes (a cut may fall inside a
\* character), and a byte that is not UTF-8.
FilePayloads ==
    UNION {Prefixes(utf8_encode(dumps_compact(d))) : d \in FileDocuments} \cup {<<255>>}

\* Eighteen bytes without a magic.
Garbage == [i \in 1..18 |-> 0]

\* The container of the list document.
ListContainer == compress_json_bytes(utf8_encode(dumps_compact(ListDocument))).data

\* The containers of the payloads, a file that is no container, every cut of
\* a container, and a container behind stray bytes.
Files ==
    {compress_json_bytes(p).data : p \in FilePayloads}
        \cup {Garbage}
        \cup Prefixes(ListContainer)
        \cup {junk \o ListContainer : junk \in {<<0>>, <<0, 0, 0, 0>>, BLOCK_MAGIC}}

InitFile ==
    /\ pc = "file"
    /\ file \in Files
    /\ byte_budget = 0
    /\ first_bytes = NoRun
    /\ outcome = NotLoaded
    /\ metadata = NotLoaded
    /\ CodecIdle
    /\ MapperIdle
    /\ TextIdle
    /\ SaveIdle
    /\ WriteIdle
    /\ ProviderIdle
    /\ BasesIdle
    /\ ManagerIdle
    /\ ComponentsIdle
    /\ ListingIdle
    /\ WindowIdle
    /\ ScanIdle

\* extract_json_from_hg(path)
ExtractJson ==
    /\ pc = "file"
    /\ outcome' = extract_json_from_hg(file)
    /\ pc' = "extracted"
    /\ UNCHANGED <<file, byte_budget, first_bytes, metadata, outsideFile>>

\* get_save_metadata(path), with no mapping in the cache and none to fetch
GetSaveMetadata ==
    /\ pc = "file"
    /\ \E n \in 1..MaxBudget :
          /\ byte_budget' = n
          /\ metadata' = get_save_metadata(file, n, <<>>)
    /\ pc' = "metadata"
    /\ UNCHANGED <<file, first_bytes, outcome, outsideFile>>

\* decompress_first_block(data, max_bytes=n)
DecompressFirstBlock ==
    /\ pc = "file"
    /\ \E n \in 0..MaxBudget :
          /\ byte_budget' = n
          /\ first_bytes' = [returned |-> decompress_first_block(file, n),
                             blocks   |-> first_blocks(file, n).blocks,
                             before   |-> first_blocks(file, n).before]
    /\ pc' = "first"
    /\ UNCHANGED <<file, outcome, metadata, outsideFile>>

NextFile == ExtractJson \/ GetSaveMetadata \/ DecompressFirstBlock

SpecFile == InitFile /\ [][NextFile]_vars

----------------------------------------------------------------------------
(* Properties of the extractors *)

\* C12: once the file has been read, get_save_metadata returns a metadata
\* dictionary rather than raising, whatever the file holds.
C12_MetadataNeverFails == pc = "metadata" => ~metadata.raised

TruncatedDocuments ==
    UNION {Prefixes(dumps_compact(d)) \ {<<>>, dumps_compact(d)} : d \in FileDocuments}

\* C28: decompress_first_block(data, n) equals the first n bytes of
\* decompress_save_file(data), all of it when it is shorter than n, also for
\* a file with stray bytes before the first magic or between blocks.
C28_AgreesWithFullDecoder ==
    pc = "first" =>
        /\ ~decompress_save_file(file).raised
        /\ first_bytes.returned = Slice(decompress_save_file(file).data, 0, byte_budget)

\* C14: extract_json_from_hg raises and returns no tree when the decoded
\* text is a truncated document, when nothing is decoded and when the
\* decoded bytes are not UTF-8.
C14_NoSilentRepair ==
    pc = "extracted" =>
        LET decompressed_data == decompress_save_file(file)
            decoded == utf8_decode(decompressed_data.data, <<>>)
        IN  /\ (decompressed_data.raised \/ decompressed_data.data = <<>>) => outcome.raised
            /\ (~decompressed_data.raised /\ ~decoded.ok) => outcome.raised
            /\ (~decompressed_data.raised /\ decoded.ok /\ decoded.text \in TruncatedDocuments)
                   => outcome.raised

----------------------------------------------------------------------------
(* The write scenario: a function that replaces a file on disk runs step by
   step; any system call of it may fail, and the process may stop between
   any two steps. *)

\* src/recompressor.py: temp_path = output_path + ".tmp"
temp_path_in_place(output_path) == output_path

temp_path(output_path) == output_path \o ".tmp"

\* The functions that replace a file, each with the path it replaces.
Writers ==
    {<<"recompress_save", "save.hg">>,
     <<"SaveFileManager.save", "save.json">>,
     <<"save_selected_base_to_json", "base.json">>}

PathsOf(output_path) == {output_path, temp_path(output_path), backup_path(output_path)}

\* The data the writers are called with; SaveFileManager.save refuses empty data.
WriteTrees == {ExampleSave, Obj(<<<<<<"a">>, Num(<<"1">>)>>>>), Arr(<<Arr(<<>>), Obj(<<>>)>>)}

\* What a writer has to put at its destination.
content_of(name, data) ==
    IF name = "recompress_save" THEN recompress_save(data, <<>>)
    ELSE IF name = "SaveFileManager.save" THEN dumps_indent(data, 2, 0)
    ELSE dumps_indent(data, 4, 0)

\* What the destination holds before the call: nothing, or what an earlier
\* call of the same writer wrote. SaveFileManager.save replaces the file the
\* save was loaded from, which exists.
PreviousContents(name) ==
    {content_of(name, Arr(<<Num(<<"2">>)>>))}
        \cup (IF name = "SaveFileManager.save" THEN {} ELSE {Missing})

\* A temporary file left behind by an earlier run.
Leftover == <<0>>

InitWrite ==
    /\ pc = "write"
    /\ CodecIdle
    /\ MapperIdle
    /\ TextIdle
    /\ SaveIdle
    /\ FileIdle
    /\ ProviderIdle
    /\ BasesIdle
    /\ ManagerIdle
    /\ ComponentsIdle
    /\ ListingIdle
    /\ WindowIdle
    /\ ScanIdle
    /\ \E w \in Writers :
           /\ writer = w[1]
           /\ destination = w[2]
           /\ content \in {content_of(w[1], data) : data \in WriteTrees}
           /\ previous \in PreviousContents(w[1])
           /\ \E stale \in {Missing, Leftover} :
                  disk = [path \in PathsOf(w[2]) |->
                             IF path = w[2] THEN previous
                             ELSE IF path = temp_path(w[2]) THEN stale
                             ELSE Missing]
    /\ write_error = "none"

\* recompress_save, step 5: open(temp_path, 'wb')
OpenTemp ==
    /\ pc = "write"
    /\ writer = "recompress_save"
    /\ disk' = [disk EXCEPT ![temp_path(destination)] = <<>>]
    /\ pc' = "temp_open"
    /\ UNCHANGED <<writer, destination, content, previous, write_error, outsideWrite>>

\* f.write(compressed_data): the bytes reach the file a part at a time
WriteTemp ==
    /\ pc = "temp_open"
    /\ \E n \in (Len(disk[temp_path(destination)]) + 1)..Len(content) :
           disk' = [disk EXCEPT ![temp_path(destination)] = SubSeq(content, 1, n)]
    /\ UNCHANGED <<pc, writer, destination, content, previous, write_error, outsideWrite>>

\* the file is closed with all of the bytes in it; os.replace(temp_path, output_path)
Replace ==
    /\ pc = "temp_open"
    /\ disk[temp_path(destination)] = content
    /\ disk' = [path \in DOMAIN disk |->
                   IF path = destination THEN disk[temp_path(destination)]
                   ELSE IF path = temp_path(destination) THEN Missing
                   ELSE disk[path]]
    /\ pc' = "written"
    /\ UNCHANGED <<writer, destination, content, previous, write_error, outsideWrite>>

\* open, write or os.replace raises: the handler removes the temporary file
\* if it exists and raises IOError
WriteFails ==
    /\ pc \in {"write", "temp_open"}
    /\ writer = "recompress_save"
    /\ disk' = [disk EXCEPT ![temp_path(destination)] = Missing]
    /\ write_error' = "IOError"
    /\ pc' = "write_failed"
    /\ UNCHANGED <<writer, destination, content, previous, outsideWrite>>

\* SaveFileManager.save: create_backup(); save_selected_base_to_json: the
\* backup of a file that already exists. shutil.copy2 copies the destination.
Backup ==
    /\ pc = "write"
    /\ writer \in {"SaveFileManager.save", "save_selected_base_to_json"}
    /\ disk' = IF disk[destination] = Missing THEN disk
               ELSE [disk EXCEPT ![backup_path(destination)] = disk[destination]]
    /\ pc' = "backed_up"
    /\ UNCHANGED <<writer, destination, content, previous, write_error, outsideWrite>>

\* SaveFileManager.save, save_json_file: open(path, 'w') empties the destination
OpenOutput ==
    /\ pc = "backed_up"
    /\ disk' = [disk EXCEPT ![destination] = <<>>]
    /\ pc' = "output_open"
    /\ UNCHANGED <<writer, destination, content, previous, write_error, outsideWrite>>

\* json.dump(data, f, indent=...): the text reaches the file a part at a time
WriteOutput ==
    /\ pc = "output_open"
    /\ \E n \in (Len(disk[destination]) + 1)..Len(content) :
           disk' = [disk EXCEPT ![destination] = SubSeq(content, 1, n)]
    /\ UNCHANGED <<pc, writer, destination, content, previous, write_error, outsideWrite>>

\* the file is closed with all of the text in it
CloseOutput ==
    /\ pc = "output_open"
    /\ disk[destination] = content
    /\ pc' = "written"
    /\ UNCHANGED <<writeVars, outsideWrite>>

\* open or write raises: SaveFileManager.save raises RuntimeError in its
\* place, save_json_file lets it through; neither touches the disk again
OutputFails ==
    /\ pc \in {"backed_up", "output_open"}
    /\ write_error' = IF writer = "SaveFileManager.save" THEN "RuntimeError" ELSE "OSError"
    /\ pc' = "write_failed"
    /\ UNCHANGED <<writer, destination, content, previous, disk, outsideWrite>>

\* the process stops between two steps: the disk stays as it is
Crash ==
    /\ pc \in {"write", "temp_open", "backed_up", "output_open"}
    /\ pc' = "crashed"
    /\ UNCHANGED <<writeVars, outsideWrite>>

NextWrite ==
    \/ OpenTemp \/ WriteTemp \/ Replace \/ WriteFails
    \/ Backup \/ OpenOutput \/ WriteOutput \/ CloseOutput \/ OutputFails
    \/ Crash

SpecWrite == InitWrite /\ [][NextWrite]_vars

C16_EveryReplaceAtomic == disk[destination] \in {previous, content}

----------------------------------------------------------------------------
(* The provider scenario: with some cache file on disk and some state of the
   remote source, the functions that need a key mapping are called, one call
   after another. *)

Key == <<"K", "e", "y">>

Value == <<"V", "a", "l", "u", "e">>

\* A mapping of one entry.
OneEntry(key, value) == Arr(<<Obj(<< <<Key, Str(key)>>, <<Value, Str(value)>> >>)>>)

Wrapped(mapping) == Obj(<< <<Mapping, mapping>> >>)

\* Each source holds a mapping of its own.
CachedMapping == OneEntry(<<"a">>, <<"b">>)

RemoteMapping == OneEntry(<<"a">>, <<"1">>)

FileMapping == OneEntry(<<"b">>, <<"a">>)

\* Documents that parse but hold no usable mapping, and texts that do not parse.
PoorDocuments ==
    {dumps_compact(Arr(<<>>)), dumps_compact(Wrapped(Arr(<<>>))),
     dumps_compact(Wrapped(Num(<<"1">>))), <<"1">>, <<"{">>}

CacheTexts ==
    {dumps_compact(CachedMapping), dumps_indent(cache_data(CachedMapping), 2, 0)}
        \cup PoorDocuments

Ages == {0, CACHE_MAX_AGE_DAYS, CACHE_MAX_AGE_DAYS + 1}

CacheFiles == {NoFile} \cup {FileOf(text, age) : text \in CacheTexts, age \in Ages}

Remotes ==
    {[error |-> "none", text |-> text] :
        text \in {dumps_compact(Wrapped(RemoteMapping)), dumps_compact(RemoteMapping),
                  <<"1">>, <<"<">>}}
        \cup {[error |-> e, text |-> <<>>] : e \in {"URLError", "TimeoutError"}}

GivenFiles ==
    {NoPath, [NoPath EXCEPT !.named = TRUE]}
        \cup {[named |-> TRUE, exists |-> TRUE, age |-> 0, text |-> text] :
                 text \in {dumps_compact(FileMapping), dumps_compact(Wrapped(FileMapping)),
                           <<"1">>, <<"{">>}}

InitProvider ==
    /\ pc = "provider"
    /\ CodecIdle
    /\ MapperIdle
    /\ TextIdle
    /\ SaveIdle
    /\ FileIdle
    /\ WriteIdle
    /\ BasesIdle
    /\ ManagerIdle
    /\ ComponentsIdle
    /\ ListingIdle
    /\ WindowIdle
    /\ ScanIdle
    /\ cache_file \in CacheFiles
    /\ remote \in Remotes
    /\ cache_writable \in BOOLEAN
    /\ request = NoRequest
    /\ obtained = NotObtained

\* The call is recorded with the cache file it found.
Called(function, given, use_cache) ==
    [function |-> function, mapping_file |-> given, use_cache |-> use_cache,
     cache |-> cache_file]

GetMapping ==
    /\ pc \in {"provider", "obtained"}
    /\ \E given \in GivenFiles, use_cache \in BOOLEAN :
           /\ request' = Called("get_mapping", given, use_cache)
           /\ obtained' = get_mapping(given, use_cache, cache_file, remote, cache_writable)
    /\ cache_file' = obtained'.cache
    /\ pc' = "obtained"
    /\ UNCHANGED <<remote, cache_writable, outsideProvider>>

FetchMapping ==
    /\ pc \in {"provider", "obtained"}
    /\ \E use_cache \in BOOLEAN :
           /\ request' = Called("fetch_mapping", NoPath, use_cache)
           /\ obtained' = fetch_mapping(use_cache, cache_file, remote, cache_writable)
    /\ cache_file' = obtained'.cache
    /\ pc' = "obtained"
    /\ UNCHANGED <<remote, cache_writable, outsideProvider>>

\* recompress_save, step 1
RecompressMapping ==
    /\ pc \in {"provider", "obtained"}
    /\ \E given \in GivenFiles :
           /\ request' = Called("recompress_save", given, TRUE)
           /\ obtained' = recompress_mapping(given, cache_file, remote, cache_writable)
    /\ cache_file' = obtained'.cache
    /\ pc' = "obtained"
    /\ UNCHANGED <<remote, cache_writable, outsideProvider>>

\* extract_metadata_from_partial_json with use_key_mapping
MetadataMapping ==
    /\ pc \in {"provider", "obtained"}
    /\ request' = Called("extract_metadata_from_partial_json", NoPath, TRUE)
    /\ obtained' = metadata_mapping(cache_file, remote, cache_writable)
    /\ cache_file' = obtained'.cache
    /\ pc' = "obtained"
    /\ UNCHANGED <<remote, cache_writable, outsideProvider>>

NextProvider == GetMapping \/ FetchMapping \/ RecompressMapping \/ MetadataMapping

SpecProvider == InitProvider /\ [][NextProvider]_vars

\* The cache file is valid: it exists, parses, holds a mapping of at least
\* one entry and is no older than 7 days.
ValidCache(cache_path) ==
    /\ cache_path.exists
    /\ cache_path.age <= CACHE_MAX_AGE_DAYS
    /\ ~load_cached_mapping(cache_path).raised
    /\ load_cached_mapping(cache_path).value.t = "arr"
    /\ load_cached_mapping(cache_path).value.v # <<>>

\* C17: a call that names no mapping file and may use the cache returns the
\* cached mapping without a download when the cache file is valid, and
\* attempts a download when it is not.
C17_CachePolicy ==
    (pc = "obtained" /\ ~request.mapping_file.named /\ request.use_cache) =>
        IF ValidCache(request.cache)
        THEN /\ ~obtained.fetched
             /\ ~obtained.raised
             /\ DeepEq(obtained.value, load_cached_mapping(request.cache).value)
        ELSE obtained.fetched

\* The download fails: the connection fails, or the response does not parse.
FetchFails == remote.error # "none" \/ ~json_loads(remote.text).ok

\* The cache file can be read: it exists and holds a mapping.
Readable(cache_path) == ~counted(load_cached_mapping(cache_path)).raised

\* C18: when fetch_mapping's download fails and the cache file can be read,
\* the cached mapping is returned; when the download fails and it cannot,
\* ConnectionError is raised; when the download succeeds, the mapping is
\* returned whether or not the cache could be written.
C18_Fallback ==
    (pc = "obtained" /\ request.function = "fetch_mapping" /\ request.use_cache
        /\ obtained.fetched) =>
        /\ (FetchFails /\ Readable(request.cache)) =>
               /\ ~obtained.raised
               /\ DeepEq(obtained.value, load_cached_mapping(request.cache).value)
        /\ (FetchFails /\ ~Readable(request.cache)) =>
               /\ obtained.raised
               /\ obtained.error = "ConnectionError"
        /\ (~FetchFails /\ ~counted(mapping_in(json_loads(remote.text))).raised) =>
               /\ ~obtained.raised
               /\ DeepEq(obtained.value, mapping_in(json_loads(remote.text)).value)

\* C19: get_mapping with a mapping file named returns the mapping loaded
\* from that file, or raises.
C19_ExplicitFile ==
    (pc = "obtained" /\ request.function = "get_mapping" /\ request.mapping_file.named) =>
        \/ obtained.raised
        \/ /\ ~load_mapping_from_file(request.mapping_file).raised
           /\ DeepEq(obtained.value, load_mapping_from_file(request.mapping_file).value)

----------------------------------------------------------------------------
(* The bases scenario: a parsed save is loaded by SaveFileManager.load and
   its bases are resolved by _get_bases_array, or it is searched by
   SaveEditor.load_bases. *)

MaxKeys == 2

\* The keys of the trees: the one searched for, an ordinary one, and one
\* that reads like the path component of a list index.
BaseKeys == {PersistentPlayerBases, <<"a">>, index_key(0)}

Objects(S, n) ==
    {Obj(entries) : entries \in {e \in [1..n -> BaseKeys \X S] :
                                    \A i, j \in 1..n : e[i][1] = e[j][1] => i = j}}

Lists(S, n) == {Arr(items) : items \in [1..n -> S]}

\* The values of S, and the objects and lists of up to width of them.
Level(S, width) == S \cup UNION {Objects(S, n) \cup Lists(S, n) : n \in 0..width}

PlayerStateData == <<"P", "l", "a", "y", "e", "r", "S", "t", "a", "t", "e", "D", "a", "t", "a">>

Inventory == <<"I", "n", "v", "e", "n", "t", "o", "r", "y">>

\* {"PlayerStateData": {"Inventory": {"PersistentPlayerBases": [1]}}}
ExampleTree ==
    Obj(<< <<PlayerStateData,
             Obj(<< <<Inventory,
                      Obj(<< <<PersistentPlayerBases, Arr(<<Num(<<"1">>)>>)>> >>)>> >>)>> >>)

\* Objects and lists of up to MaxKeys members, each member a number or an
\* object or list of at most one number; and the example.
BaseTrees == Level(Level({Num(<<"1">>)}, 1), MaxKeys) \cup {ExampleTree}

InitBases ==
    /\ pc = "bases"
    /\ CodecIdle
    /\ MapperIdle
    /\ TextIdle
    /\ SaveIdle
    /\ FileIdle
    /\ WriteIdle
    /\ ProviderIdle
    /\ ManagerIdle
    /\ ComponentsIdle
    /\ ListingIdle
    /\ WindowIdle
    /\ ScanIdle
    /\ save_data \in BaseTrees
    /\ loaded_path = NotFound("none")
    /\ bases_array = NotLoaded

\* SaveFileManager.load
Load ==
    /\ pc = "bases"
    /\ loaded_path' = load(save_data)
    /\ pc' = "save_loaded"
    /\ UNCHANGED <<save_data, bases_array, outsideBases>>

\* SaveFileManager._get_bases_array, after a load that succeeded
GetBasesArray ==
    /\ pc = "save_loaded"
    /\ ~loaded_path.raised
    /\ bases_array' = get_bases_array(save_data, loaded_path.path)
    /\ pc' = "resolved"
    /\ UNCHANGED <<save_data, loaded_path, outsideBases>>

\* SaveEditor.load_bases: bases_path and all_bases
LoadBases ==
    /\ pc = "bases"
    /\ loaded_path' = load_bases(save_data)
    /\ bases_array' = IF loaded_path'.raised THEN bases_array ELSE Loaded(loaded_path'.value)
    /\ pc' = "bases_loaded"
    /\ UNCHANGED <<save_data, outsideBases>>

NextBases == Load \/ GetBasesArray \/ LoadBases

SpecBases == InitBases /\ [][NextBases]_vars

\* The places of a tree where an object key equals PersistentPlayerBases,
\* each as the positions taken from the root: of an entry in an object, of
\* an item in a list.
RECURSIVE KeyPlaces(_)
KeyPlaces(t) ==
    IF t.t = "obj"
    THEN UNION {(IF t.v[i][1] = PersistentPlayerBases THEN {<<i>>} ELSE {})
                    \cup {<<i>> \o q : q \in KeyPlaces(t.v[i][2])} : i \in 1..Len(t.v)}
    ELSE IF t.t = "arr"
    THEN UNION {{<<i>> \o q : q \in KeyPlaces(t.v[i])} : i \in 1..Len(t.v)}
    ELSE {}

\* Place a comes before place b in pre-order: a key comes before everything
\* below it, and an earlier entry or item before a later one.
PreOrderBefore(a, b) ==
    \/ Len(a) < Len(b) /\ SubSeq(b, 1, Len(a)) = a
    \/ \E i \in 1..Min(Len(a), Len(b)) :
           /\ SubSeq(a, 1, i - 1) = SubSeq(b, 1, i - 1)
           /\ a[i] < b[i]

FirstPlace(t) ==
    CHOOSE a \in KeyPlaces(t) : \A b \in KeyPlaces(t) \ {a} : PreOrderBefore(a, b)

\* The path of a place: the key of each object entry, "[i]" for each item.
RECURSIVE PathOf(_, _)
PathOf(t, place) ==
    IF place = <<>> THEN <<>>
    ELSE IF t.t = "obj"
    THEN <<t.v[Head(place)][1]>> \o PathOf(t.v[Head(place)][2], Tail(place))
    ELSE <<index_key(Head(place) - 1)>> \o PathOf(t.v[Head(place)], Tail(place))

\* The value at a place.
RECURSIVE ValueAt(_, _)
ValueAt(t, place) ==
    IF place = <<>> THEN t
    ELSE IF t.t = "obj" THEN ValueAt(t.v[Head(place)][2], Tail(place))
    ELSE ValueAt(t.v[Head(place)], Tail(place))

\* C20: for a tree with a key PersistentPlayerBases, load stores the path
\* to the first such key in pre-order and _get_bases_array resolves it to
\* that key's value; load_bases finds the same path and value; for a tree
\* without such a key, both fail.
C20_BasesPath ==
    /\ pc \in {"save_loaded", "bases_loaded", "resolved"} =>
           IF KeyPlaces(save_data) = {} THEN loaded_path.raised
           ELSE /\ ~loaded_path.raised
                /\ loaded_path.path = PathOf(save_data, FirstPlace(save_data))
    /\ pc \in {"bases_loaded", "resolved"} /\ KeyPlaces(save_data) # {} =>
           /\ ~bases_array.raised
           /\ bases_array.value = ValueAt(save_data, FirstPlace(save_data))

----------------------------------------------------------------------------
(* The manager scenario: one SaveFileManager is driven through any         *)
(* sequence of load, replace_base, create_backup and save over a folder of *)
(* save files.                                                             *)

\* The bases of the first save file are MaxBases in number.
MaxBases == 2

\* A manager is called up to MaxCalls times.
MaxCalls == 4

BaseName == <<"N", "a", "m", "e">>

\* The base an array holds at position i (from 0), and the base a caller
\* passes to replace_base.
BaseAt(i) == Obj(<< <<BaseName, Str(digits_of(i))>> >>)

NewBase == Obj(<< <<BaseName, Str(<<"n">>)>> >>)

\* A save with its bases at the top level, one with its bases inside a list,
\* and a document without bases.
TopLevelSave ==
    Obj(<< <<PersistentPlayerBases, Arr([i \in 1..MaxBases |-> BaseAt(i - 1)])>> >>)

NestedSave ==
    Obj(<< <<<<"a">>, Arr(<< Obj(<< <<PersistentPlayerBases, Arr(<<BaseAt(0)>>)>> >>) >>)>> >>)

NoBases == Obj(<< <<<<"a">>, Num(<<"1">>)>> >>)

\* The paths a caller passes to load, and to save ("" is None).
LoadPaths == {"a.json", "b.json", "c.json", "d.json", "e.json"}

SavePaths == {"", "e.json"}

\* The folder at the start: two saves, a document without bases, a file
\* that is not JSON, and no file at e.json nor at any backup path.
StartFolder ==
    [path \in LoadPaths \cup {backup_path(q) : q \in LoadPaths} |->
        IF path = "a.json" THEN dumps_indent(TopLevelSave, 2, 0)
        ELSE IF path = "b.json" THEN dumps_compact(NestedSave)
        ELSE IF path = "c.json" THEN dumps_compact(NoBases)
        ELSE IF path = "d.json" THEN <<"{">>
        ELSE NoSuchFile]

\* The indices a caller passes to replace_base
Indices == (0 - 1)..MaxBases

InitManager ==
    /\ pc = "manager"
    /\ CodecIdle
    /\ MapperIdle
    /\ TextIdle
    /\ SaveIdle
    /\ FileIdle
    /\ WriteIdle
    /\ ProviderIdle
    /\ BasesIdle
    /\ ComponentsIdle
    /\ ListingIdle
    /\ WindowIdle
    /\ ScanIdle
    /\ manager = NewManager
    /\ folder = StartFolder
    /\ call = NoCall
    /\ backed_up = FALSE

\* The record of a call: the method, its arguments, the manager and the
\* files before it, and the exception it raised.
Call(op, r, path, index, value, backup) ==
    [op |-> op, raised |-> r.raised, error |-> r.error, before |-> manager,
     files |-> folder, path |-> path, index |-> index, value |-> value,
     backup |-> backup, n |-> call.n + 1]

Came(op, r, path, index, value, backup, made) ==
    /\ manager' = r.manager
    /\ folder' = r.files
    /\ call' = Call(op, r, path, index, value, backup)
    /\ backed_up' = made
    /\ UNCHANGED <<pc, outsideManager>>

ManagerLoad ==
    /\ pc = "manager"
    /\ call.n < MaxCalls
    /\ \E path \in LoadPaths :
          Came("load", manager_load(manager, folder, path), path, 0, Null, FALSE,
               manager_load(manager, folder, path).raised /\ backed_up)

ReplaceBase ==
    /\ pc = "manager"
    /\ call.n < MaxCalls
    /\ \E index \in Indices :
          Came("replace_base", replace_base(manager, folder, index, NewBase),
               "", index, NewBase, FALSE, backed_up)

CreateBackup ==
    /\ pc = "manager"
    /\ call.n < MaxCalls
    /\ Came("create_backup", create_backup(manager, folder), "", 0, Null, FALSE,
            backed_up \/ ~create_backup(manager, folder).raised)

ManagerSave ==
    /\ pc = "manager"
    /\ call.n < MaxCalls
    /\ \E path \in SavePaths, backup \in BOOLEAN :
          Came("save", manager_save(manager, folder, path, backup), path, 0, Null, backup,
               \/ backed_up
               \/ /\ ~manager_save(manager, folder, path, backup).raised
                  /\ manager_save(manager, folder, path, backup).manager.backup_path
                         # manager.backup_path)

NextManager == ManagerLoad \/ ReplaceBase \/ CreateBackup \/ ManagerSave

SpecManager == InitManager /\ [][NextManager]_vars

\* The bases array of a manager, when the stored path leads to a list.
BasesOf(m) == get_bases_array(m.save_data, m.base_path)

HasBasesArray(m) == ~BasesOf(m).raised /\ BasesOf(m).value.t = "arr"

C27_FailedLoadKeepsState ==
    pc = "manager" /\ call.op = "load" /\ call.raised => manager = call.before

\* C30: when save(create_backup=True) has overwritten a file, a backup of
\* the loaded file was made since that file was loaded.
C30_BackupBeforeOverwrite ==
    /\ pc = "manager"
    /\ call.op = "save"
    /\ call.backup
    /\ ~call.raised
    /\ call.files[IF call.path # "" THEN call.path ELSE call.before.file_path] # NoSuchFile
    => backed_up

----------------------------------------------------------------------------
(* The components scenario: the components of one base are counted.        *)

\* An Objects array holds up to MaxComponents components.
MaxComponents == 3

Nested == <<"N", "e", "s", "t", "e", "d">>

ComponentKeys == {ObjectsKey, Nested}

\* What a key of a base is bound to at the lowest level: a number, or an
\* array of 0 to MaxComponents components.
ComponentLeaves ==
    {Num(<<"5">>)} \cup {Arr([i \in 1..n |-> Str(<<"a">>)]) : n \in 0..MaxComponents}

\* The objects with up to two keys, bound to values of S, in either order.
ObjectsOver(S) ==
    {Obj(entries) : entries \in UNION {{e \in [1..n -> ComponentKeys \X S] :
                                          \A i, j \in 1..n : e[i][1] = e[j][1] => i = j} :
                                       n \in 0..2}}

\* The bases: objects whose keys are bound to a leaf, to an object of
\* leaves, or to a list of one such object.
ComponentBases ==
    ObjectsOver(ComponentLeaves
                \cup ObjectsOver(ComponentLeaves)
                \cup {Arr(<<o>>) : o \in ObjectsOver({Num(<<"5">>), Arr(<<Str(<<"a">>)>>)})})

InitComponents ==
    /\ pc = "components"
    /\ CodecIdle
    /\ MapperIdle
    /\ TextIdle
    /\ SaveIdle
    /\ FileIdle
    /\ WriteIdle
    /\ ProviderIdle
    /\ BasesIdle
    /\ ManagerIdle
    /\ ListingIdle
    /\ WindowIdle
    /\ ScanIdle
    /\ base \in ComponentBases
    /\ component_count = 0

GetNumberOfComponents ==
    /\ pc = "components"
    /\ component_count' = get_numer_of_components_from_base(base)
    /\ pc' = "counted"
    /\ UNCHANGED <<base, outsideComponents>>

NextComponents == GetNumberOfComponents

SpecComponents == InitComponents /\ [][NextComponents]_vars

\* The places of the keys named key in a tree: the positions of the entries
\* and items that lead to each.
RECURSIVE PlacesOf(_, _)
PlacesOf(t, key) ==
    IF t.t = "obj"
    THEN UNION {(IF t.v[i][1] = key THEN {<<i>>} ELSE {})
                    \cup {<<i>> \o q : q \in PlacesOf(t.v[i][2], key)} : i \in 1..Len(t.v)}
    ELSE IF t.t = "arr"
    THEN UNION {{<<i>> \o q : q \in PlacesOf(t.v[i], key)} : i \in 1..Len(t.v)}
    ELSE {}

FirstOf(t, key) ==
    CHOOSE a \in PlacesOf(t, key) : \A b \in PlacesOf(t, key) \ {a} : PreOrderBefore(a, b)

HasTopLevel(b) == \E i \in 1..Len(b.v) : b.v[i][1] = ObjectsKey

TopLevel(b) == b.v[CHOOSE i \in 1..Len(b.v) : b.v[i][1] = ObjectsKey][2]

\* C22 as stated: with an array at the top-level key Objects the count is
\* its length; otherwise it is the length of the array at the first key
\* named Objects in pre-order below the base; otherwise 0.
C22_ComponentCount_Original ==
    pc = "counted" =>
        component_count =
            IF HasTopLevel(base) /\ TopLevel(base).t = "arr" THEN Len(TopLevel(base).v)
            ELSE IF PlacesOf(base, ObjectsKey) # {}
                    /\ ValueAt(base, FirstOf(base, ObjectsKey)).t = "arr"
            THEN Len(ValueAt(base, FirstOf(base, ObjectsKey)).v)
            ELSE 0

\* C22, amended: with a top-level key Objects the count is the length of
\* its value when that is an array and 0 when it is not; without one it is
\* the length of the value of the first key named Objects in pre-order
\* below the base when that is an array, and 0 when it is not or when there
\* is no such key.
C22_ComponentCount ==
    pc = "counted" =>
        component_count =
            IF HasTopLevel(base)
            THEN (IF TopLevel(base).t = "arr" THEN Len(TopLevel(base).v) ELSE 0)
            ELSE IF PlacesOf(base, ObjectsKey) # {}
                    /\ ValueAt(base, FirstOf(base, ObjectsKey)).t = "arr"
            THEN Len(ValueAt(base, FirstOf(base, ObjectsKey)).v)
            ELSE 0

\* C22, reached: a base without a top-level Objects whose first Objects
\* below is an array of components.
C22_Witness ==
    /\ pc = "counted"
    /\ ~HasTopLevel(base)
    /\ PlacesOf(base, ObjectsKey) # {}
    /\ component_count >= 1

----------------------------------------------------------------------------
(* The listing scenario: a SaveEditor lists the save files of a directory  *)
(* and the window fills its dropdown from the listing.                     *)

\* A directory holds up to MaxFiles files.
MaxFiles == 2

\* "save<i>.hg", and a file that is no save.
SaveName(i) == <<"s", "a", "v", "e">> \o digits_of(i) \o <<".", "h", "g">>

ListingNames == {SaveName(i) : i \in 1..MaxFiles} \cup {<<"n", "o", "t", "e", "s">>}

ObjectContainer == compress_json_bytes(utf8_encode(dumps_compact(ObjectDocument))).data

\* A save, a save cut short, a container of a list, and a file that is no
\* container.
ListingContents ==
    {ObjectContainer, SubSeq(ObjectContainer, 1, Len(ObjectContainer) - 3),
     ListContainer, Garbage}

ListingFiles == [name : ListingNames, data : ListingContents, mtime : {1, 2}]

Directories ==
    UNION {{d \in [1..n -> ListingFiles] :
               \A i, j \in 1..n : d[i].name = d[j].name => i = j} : n \in 0..MaxFiles}

InitListing ==
    /\ pc = "listing"
    /\ CodecIdle
    /\ MapperIdle
    /\ TextIdle
    /\ SaveIdle
    /\ FileIdle
    /\ WriteIdle
    /\ ProviderIdle
    /\ BasesIdle
    /\ ManagerIdle
    /\ ComponentsIdle
    /\ WindowIdle
    /\ ScanIdle
    /\ directory \in Directories
    /\ save_files = <<>>
    /\ save_file_metadata = <<>>
    /\ listed = NotListed
    /\ dropdown = NotLoaded

Listed(r) ==
    /\ save_files' = r.save_files
    /\ save_file_metadata' = r.outcome.entries
    /\ listed' = [raised |-> r.outcome.raised, error |-> r.outcome.error]

LoadSaveFiles ==
    /\ pc = "listing"
    /\ Listed(load_save_files(directory, METADATA_MAX_BYTES, save_file_metadata))
    /\ pc' = "listed"
    /\ UNCHANGED <<directory, dropdown, outsideListing>>

\* MainWindow.__init__ reports a failure of load_save_files and goes on to
\* fill the dropdown.
UpdateSaveFileDropdown ==
    /\ pc = "listed"
    /\ dropdown' = update_save_file_dropdown(save_files, save_file_metadata)
    /\ pc' = "dropdown"
    /\ UNCHANGED <<directory, save_files, save_file_metadata, listed, outsideListing>>

NextListing == LoadSaveFiles \/ UpdateSaveFileDropdown

SpecListing == InitListing /\ [][NextListing]_vars

\* C23: load_save_files is not aborted by a file whose metadata cannot be
\* read: afterwards every name of save_files has an entry in
\* save_file_metadata, and the dropdown can be filled.
C23_FaultIsolated ==
    /\ pc \in {"listed", "dropdown"} =>
           /\ ~listed.raised
           /\ \A i \in 1..Len(save_files) : save_files[i] \in DictKeys(save_file_metadata)
    /\ pc = "dropdown" => ~dropdown.raised

----------------------------------------------------------------------------
(* The window scenario: the Qt main window over a directory of two save    *)
(* files. The user clicks what is enabled, in any order; each worker runs  *)
(* one call of the SaveEditor at a time, interleaved with the clicks and   *)
(* with the other workers; a finished signal is handled by the window      *)
(* later.                                                                  *)

\* The user clicks up to MaxClicks times.
MaxClicks == 6

SessionFiles == {"save.hg", "save2.hg"}

\* A base of a name and a type with n components.
Base(name, base_type, n) ==
    Obj(<< <<BaseNameKey, Str(name)>>,
           <<BaseTypeKey, Obj(<< <<PersistentBaseTypes, Str(base_type)>> >>)>>,
           <<ObjectsKey, Arr([i \in 1..n |-> Num(<<"1">>)])>> >>)

\* The base after the user changed it in the editor window.
Edited(b) == Obj(DictSet(b.v, <<"E">>, Num(<<"1">>)))

SaveOf(bases) == Obj(<< <<PersistentPlayerBases, Arr(bases)>> >>)

\* save.hg: a planetary base and two corvettes; the first two share a name.
FirstSave ==
    SaveOf(<<Base(<<"x">>, ExternalPlanetBase, 0), Base(<<"x">>, PlayerShipBase, 1),
             Base(<<"y">>, PlayerShipBase, 2)>>)

\* save2.hg: a save of one corvette, a file that cannot be extracted, or a
\* save without bases.
SecondSaves == {SaveOf(<<Base(<<"z">>, PlayerShipBase, 3)>>), Unreadable, NoBases}

BaseTypeButtons == {PlayerShipBase, ExternalPlanetBase, <<"b", "o", "t", "h">>}

InitWindow ==
    /\ pc = "window"
    /\ CodecIdle
    /\ MapperIdle
    /\ TextIdle
    /\ SaveIdle
    /\ FileIdle
    /\ WriteIdle
    /\ ProviderIdle
    /\ BasesIdle
    /\ ManagerIdle
    /\ ComponentsIdle
    /\ ListingIdle
    /\ ScanIdle
    /\ editor = NewEditor
    /\ window = NewWindow
    /\ workers = NoWorkers
    /\ \E second_save \in SecondSaves :
          hg_files = [name \in SessionFiles |->
                         IF name = "save.hg" THEN FirstSave ELSE second_save]
    /\ trail = NoTrail

Clicked == trail' = [trail EXCEPT !.clicks = @ + 1]

\* MainWindow._load_save_file: the Load File button
LoadSaveFile ==
    /\ pc = "window"
    /\ trail.clicks < MaxClicks
    /\ window.load_file_btn
    /\ \E name \in SessionFiles :
          workers' = [workers EXCEPT !.decompress =
                         [pc |-> "run", save_file_name |-> name, success |-> FALSE]]
    /\ window' = [window EXCEPT !.load_file_btn = FALSE, !.count_components_btn = FALSE]
    /\ Clicked
    /\ UNCHANGED <<pc, editor, hg_files, outsideWindow>>

\* DecompressWorker.run: select_save_file
DecompressSelect ==
    /\ pc = "window"
    /\ workers.decompress.pc = "run"
    /\ editor' = select_save_file(editor, hg_files, workers.decompress.save_file_name).editor
    /\ workers' = [workers EXCEPT !.decompress.pc = "selected"]
    /\ UNCHANGED <<pc, window, hg_files, trail, outsideWindow>>

Decompressed(r) ==
    /\ editor' = r.editor
    /\ workers' = [workers EXCEPT !.decompress.pc = IF r.raised THEN "emitted" ELSE "decompressed"]
    /\ trail' = [trail EXCEPT !.origin = IF r.raised THEN @ ELSE workers.decompress.save_file_name]

\* DecompressWorker.run: decompress_save_file
DecompressDecompress ==
    /\ pc = "window"
    /\ workers.decompress.pc = "selected"
    /\ Decompressed(editor_decompress_save_file(editor, hg_files, SessionFiles,
                                                workers.decompress.save_file_name))
    /\ UNCHANGED <<pc, window, hg_files, outsideWindow>>

BasesLoaded(r) ==
    /\ editor' = r.editor
    /\ workers' = [workers EXCEPT !.decompress.pc = "emitted", !.decompress.success = ~r.raised]

\* DecompressWorker.run: load_bases, and the finished signal
DecompressLoadBases ==
    /\ pc = "window"
    /\ workers.decompress.pc = "decompressed"
    /\ BasesLoaded(editor_load_bases(editor, hg_files))
    /\ UNCHANGED <<pc, window, hg_files, trail, outsideWindow>>

\* MainWindow._on_decompress_finished
OnDecompressFinished ==
    /\ pc = "window"
    /\ workers.decompress.pc = "emitted"
    /\ window' = [window EXCEPT !.load_file_btn = TRUE,
                                !.base_type_section = @ \/ workers.decompress.success,
                                !.count_components_btn = @ \/ workers.decompress.success]
    /\ workers' = [workers EXCEPT !.decompress = NoWorkers.decompress]
    /\ UNCHANGED <<pc, editor, hg_files, trail, outsideWindow>>

\* MainWindow._set_base_type: one of the three buttons of the base types
SetBaseType ==
    /\ pc = "window"
    /\ trail.clicks < MaxClicks
    /\ window.base_type_section
    /\ \E base_type \in BaseTypeButtons :
          window' = [window EXCEPT !.filtered_bases =
                        filter_and_display_bases(editor.all_bases, @, base_type)]
    /\ Clicked
    /\ UNCHANGED <<pc, editor, workers, hg_files, outsideWindow>>

\* MainWindow._on_base_clicked: a row of the list of bases
OnBaseClicked ==
    /\ pc = "window"
    /\ trail.clicks < MaxClicks
    /\ \E index \in 0..(Len(window.filtered_bases) - 1) :
          /\ window' = [window EXCEPT !.selected_base_index = index,
                                      !.edit_base_btn = TRUE,
                                      !.inject_base_btn = FALSE]
          /\ editor' = [editor EXCEPT !.selected_base = window.filtered_bases[index + 1],
                                      !.selected_base_index = index]
          /\ trail' = [trail EXCEPT !.clicked = window.filtered_bases[index + 1],
                                    !.clicks = @ + 1]
    /\ UNCHANGED <<pc, workers, hg_files, outsideWindow>>

\* MainWindow._open_editor, EditorWindow._save_base and
\* MainWindow._on_base_saved: the user changes the base and saves it.
OpenEditor ==
    /\ pc = "window"
    /\ trail.clicks < MaxClicks
    /\ window.edit_base_btn
    /\ editor.selected_base # Null
    /\ editor' = [editor EXCEPT !.selected_base = Edited(@)]
    /\ window' = [window EXCEPT
                     !.filtered_bases =
                         IF window.selected_base_index # NoIndex
                            /\ window.selected_base_index < Len(@)
                         THEN [@ EXCEPT ![window.selected_base_index + 1] =
                                            Edited(editor.selected_base)]
                         ELSE @,
                     !.inject_base_btn = TRUE]
    /\ Clicked
    /\ UNCHANGED <<pc, workers, hg_files, outsideWindow>>

\* MainWindow._inject_base: the Inject button, confirmed. The click is taken
\* while no inject worker runs.
InjectBase ==
    /\ pc = "window"
    /\ trail.clicks < MaxClicks
    /\ window.inject_base_btn
    /\ editor.selected_base # Null
    /\ workers.inject.pc = "none"
    /\ window' = [window EXCEPT !.inject_base_btn = FALSE]
    /\ workers' = [workers EXCEPT !.inject = [pc |-> "run", success |-> FALSE]]
    /\ Clicked
    /\ UNCHANGED <<pc, editor, hg_files, outsideWindow>>

Injected(r) ==
    /\ editor' = r.editor
    /\ workers' = [workers EXCEPT !.inject.pc = IF r.raised THEN "emitted" ELSE "injected"]
    /\ trail' = [trail EXCEPT !.injection =
                    IF r.raised THEN @
                    ELSE [done |-> TRUE, at |-> editor.selected_base_index,
                          replaced |-> editor.all_bases[editor.selected_base_index + 1]]]

\* InjectWorker.run: inject_selected_base_into_save_file
InjectInject ==
    /\ pc = "window"
    /\ workers.inject.pc = "run"
    /\ Injected(inject_selected_base_into_save_file(editor, hg_files))
    /\ UNCHANGED <<pc, window, hg_files, outsideWindow>>

Recompressed(r) ==
    /\ hg_files' = r.files
    /\ workers' = [workers EXCEPT !.inject.pc = "emitted", !.inject.success = ~r.raised]
    /\ trail' = [trail EXCEPT !.wrote =
                    IF r.raised THEN @
                    ELSE [file |-> editor.selected_save_file, origin |-> trail.origin]]

\* InjectWorker.run: recompress_save_file over the selected save file, and
\* the finished signal
InjectRecompress ==
    /\ pc = "window"
    /\ workers.inject.pc = "injected"
    /\ Recompressed(recompress_save_file(editor, hg_files, editor.selected_save_file))
    /\ UNCHANGED <<pc, editor, window, outsideWindow>>

\* MainWindow._on_inject_finished
OnInjectFinished ==
    /\ pc = "window"
    /\ workers.inject.pc = "emitted"
    /\ window' = [window EXCEPT !.inject_base_btn = ~workers.inject.success]
    /\ workers' = [workers EXCEPT !.inject = NoWorkers.inject]
    /\ UNCHANGED <<pc, editor, hg_files, trail, outsideWindow>>

\* MainWindow._count_components: the Count All Components button
CountComponents ==
    /\ pc = "window"
    /\ trail.clicks < MaxClicks
    /\ window.count_components_btn
    /\ editor.selected_save_file_dict # Null
    /\ editor.all_bases # <<>>
    /\ window' = [window EXCEPT !.count_components_btn = FALSE]
    /\ workers' = [workers EXCEPT !.count = [pc |-> "run", success |-> FALSE]]
    /\ Clicked
    /\ UNCHANGED <<pc, editor, hg_files, outsideWindow>>

\* CountComponentsWorker.run: the bases are read, and the finished signal
CountRun ==
    /\ pc = "window"
    /\ workers.count.pc = "run"
    /\ workers' = [workers EXCEPT !.count =
                      [pc |-> "emitted",
                       success |-> editor.selected_save_file_dict # Null
                                   /\ editor.all_bases # <<>>]]
    /\ UNCHANGED <<pc, editor, window, hg_files, trail, outsideWindow>>

\* MainWindow._on_count_finished
OnCountFinished ==
    /\ pc = "window"
    /\ workers.count.pc = "emitted"
    /\ window' = [window EXCEPT !.count_components_btn = TRUE]
    /\ workers' = [workers EXCEPT !.count = NoWorkers.count]
    /\ UNCHANGED <<pc, editor, hg_files, trail, outsideWindow>>

NextWindow ==
    \/ LoadSaveFile
    \/ DecompressSelect
    \/ DecompressDecompress
    \/ DecompressLoadBases
    \/ OnDecompressFinished
    \/ SetBaseType
    \/ OnBaseClicked
    \/ OpenEditor
    \/ InjectBase
    \/ InjectInject
    \/ InjectRecompress
    \/ OnInjectFinished
    \/ CountComponents
    \/ CountRun
    \/ OnCountFinished

SpecWindow == InitWindow /\ [][NextWindow]_vars

\* C24: whenever selected_save_file_dict is not null it is the tree
\* extracted from the file named by selected_save_file, and the inject
\* worker only ever overwrites a save file with a tree that came from that
\* same file.
C24_SessionConsistent ==
    pc = "window" =>
        /\ editor.selected_save_file_dict # Null => trail.origin = editor.selected_save_file
        /\ trail.wrote.file # "" => trail.wrote.origin = trail.wrote.file

\* The workers that are running on the SaveEditor.
RunningWorkers ==
    {w \in {"decompress", "inject", "count"} : workers[w].pc \notin {"none", "emitted"}}

\* C25: at most one worker operates on the SaveEditor at any time, and no
\* step changes selected_save_file or selected_save_file_dict while the
\* inject worker is between its inject step and the end of its recompress
\* step.
C25_WorkerExclusion ==
    [][/\ Cardinality(RunningWorkers') <= 1
       /\ (pc = "window" /\ workers.inject.pc = "injected" /\ workers'.inject.pc = "injected") =>
              /\ editor'.selected_save_file = editor.selected_save_file
              /\ editor'.selected_save_file_dict = editor.selected_save_file_dict]_vars

\* Two values of one base: the editor window changes a base, it does not
\* make another base of it.
SameBase(a, b) == a # Null /\ b # Null /\ Edited(a) = Edited(b)

\* C26: the slot of PersistentPlayerBases that the injection overwrites is
\* the slot that held the base the user clicked in the list.
C26_InjectsSelectedBase ==
    (pc = "window" /\ trail.injection.done) =>
        SameBase(trail.injection.replaced, trail.clicked)

----------------------------------------------------------------------------
(* The scan scenario: decompress_save_file is run an iteration at a time   *)
(* over whole, cut and damaged containers, with the except clause of       *)
(* either extractor.                                                       *)

\* A container of three blocks.
ScanContainer == compress_json_bytes([i \in 1..MaxPayload |-> 97]).data

\* The length of its first block.
FirstBlockLen == BLOCK_HEADER_SIZE + 1 + MAX_UNCOMPRESSED_BLOCK_SIZE

\* Stray bytes: shorter than a magic, as long, longer, the start of a magic,
\* and a magic with no block behind it.
ScanJunk == {<<0>>, <<0, 0, 0, 0>>, <<0, 0, 0, 0, 0>>, <<229, 161, 237>>, BLOCK_MAGIC}

\* The container, every cut of it (a cut inside a header included), stray
\* bytes before the first block and between the first two, a block with an
\* empty payload in front, and a second block that does not decompress.
ScanFiles ==
    Prefixes(ScanContainer)
        \cup {junk \o ScanContainer : junk \in ScanJunk}
        \cup {Slice(ScanContainer, 0, FirstBlockLen) \o junk
                  \o Slice(ScanContainer, FirstBlockLen, Len(ScanContainer)) :
              junk \in ScanJunk}
        \cup {pack_header(0, 0) \o ScanContainer}
        \cup {[ScanContainer EXCEPT ![FirstBlockLen + BLOCK_HEADER_SIZE + 1] = 255]}

InitScan ==
    /\ pc = "scan"
    /\ CodecIdle
    /\ MapperIdle
    /\ TextIdle
    /\ SaveIdle
    /\ FileIdle
    /\ WriteIdle
    /\ ProviderIdle
    /\ BasesIdle
    /\ ManagerIdle
    /\ ComponentsIdle
    /\ ListingIdle
    /\ WindowIdle
    /\ \E data \in ScanFiles, on_fail \in {"raise", "break"} :
          din = [NoScan EXCEPT !.data = data, !.on_fail = on_fail, !.status = "scanning"]

Iterated(r) ==
    din' = [din EXCEPT !.status = r.status, !.pos = r.pos, !.out = r.out,
                       !.resynced = r.resynced, !.start = din.pos, !.iterations = @ + 1]

\* decompress_save_file: one iteration of the while loop
Iterate ==
    /\ pc = "scan"
    /\ din.status = "scanning"
    /\ din.pos < Len(din.data)
    /\ Iterated(loop_body(din.data, din.pos, din.out, din.on_fail))
    /\ UNCHANGED <<pc, outsideScan>>

\* decompress_save_file: the loop condition fails and the output is returned
ReturnOut ==
    /\ pc = "scan"
    /\ din.status = "scanning"
    /\ din.pos >= Len(din.data)
    /\ din' = [din EXCEPT !.status = "returned"]
    /\ UNCHANGED <<pc, outsideScan>>

NextScan == Iterate \/ ReturnOut

SpecScan == InitScan /\ [][NextScan]_vars

\* The iterations end with what the function returns or raises.
ScanAgreesWithLoop ==
    (pc = "scan" /\ din.status # "scanning") =>
        /\ decompress_loop(din.data, 0, <<>>, din.on_fail, 4).raised = (din.status = "raised")
        /\ din.status = "returned" =>
              decompress_loop(din.data, 0, <<>>, din.on_fail, 4).data = din.out

\* C29: every iteration of the scan loop of decompress_save_file either
\* ends the loop or leaves the cursor strictly further than it was at the
\* start of the iteration, so the function runs at most one iteration for
\* each byte of its input.
C29_CursorProgress ==
    [][(pc = "scan" /\ din.status = "scanning") =>
          /\ din'.status # "scanning" \/ din'.pos > din.pos
          /\ din'.iterations <= Len(din'.data)]_vars

\* C29: the loop went on after an iteration that took the re-sync seek, and
\* an earlier iteration had read a block.
C29_Witness ==
    /\ pc = "scan"
    /\ din.status = "scanning"
    /\ din.resynced
    /\ din.iterations >= 2
    /\ din.pos > din.start

=============================================================================
